---- MODULE Spec2Model ----
(***************************************************************************)
(* Analytics views of server.py (ana_client_portfolio_risk,                *)
(* ana_client_engagement_momentum, ana_client_conviction,                  *)
(* int_client_risk_enhanced, int_client_risk_multifactor) evaluated over   *)
(* the raw tables of the SQLite store, and the lookups that read them.     *)
(*                                                                         *)
(* Units.  SQLite REAL values are modelled as exact fixed-point or         *)
(* rational numbers:                                                       *)
(*   weight                 1/3000                 (0.125  -> 375)         *)
(*   hhi (unrounded)        1/9000000              (0.38   -> 3420000)     *)
(*   ROUND(x, 4) of these   ten-thousandths        (0.3800 -> 3800)        *)
(*   timestamps, now        half days              (30 days -> 60)         *)
(*   risk factors           hundredths             (0.85   -> 85)          *)
(*   other real values      reduced fractions <<numerator, denominator>>   *)
(*   ROUND(x, k) of these   decimals <<count, 10^k>>  (0.68 -> <<68, 100>>) *)
(*   a NULL real value      <<0, 0>>                                       *)
(* Binary floating-point representation error is not modelled.             *)
(***************************************************************************)
EXTENDS Integers, Sequences, FiniteSets, Bags, TLC

VARIABLES
    src_clients,              \* client_id -> client_type
    src_portfolio_snapshots,  \* sequence of rows; snapshot_id = index (AUTOINCREMENT)
    src_positions,            \* bag of rows [snapshot_id, weight]
    src_trade_executions,     \* bag of rows [client_id, ticker, side, notional_bucket, trade_timestamp]
    src_call_logs,            \* bag of rows [client_id, duration_minutes, call_timestamp]
    now,                      \* julianday('now'), in half days
    last,                     \* the most recent lookup against the current tables and its result
    inflight,                 \* the metric lookups in progress, by worker thread
    ai_generation_history     \* sequence of rows; generation_id = index (AUTOINCREMENT)

vars == <<src_clients, src_portfolio_snapshots, src_positions,
          src_trade_executions, src_call_logs, now, last, inflight, ai_generation_history>>

\* The state of the requests being served and of the audit trail.
requests == <<inflight, ai_generation_history>>

tables == <<src_clients, src_portfolio_snapshots, src_positions,
            src_trade_executions, src_call_logs>>

(***************************************************************************)
(* Bounds of the model.                                                    *)
(***************************************************************************)
MaxSnapshots == 2     \* rows of src_portfolio_snapshots
MaxPositions == 2     \* rows of src_positions
MaxEvents == 2        \* rows of src_trade_executions and src_call_logs together
MaxRows == 2          \* rows of all tables together, in the specification of all lookups
MaxTicks == 1         \* advances of the clock
MaxLoads == 3         \* snapshots, positions and trade batches together, for composite risk
MaxGenerations == 3   \* rows of ai_generation_history
MaxInflight == 2      \* metric lookups in progress at a time

Clients == {1, 2}
Dates == {1, 2}

NULL == "NULL"                      \* a NULL text value
NullNum == <<0, 0>>                 \* a NULL real value
NoRow == [no_row |-> TRUE]          \* the view has no row for the client
EmptyRecord == [x \in {} |-> NULL]  \* the {} of `return row or {}`
\* A worker thread without a lookup.
Idle == [pc |-> "idle"]
NoLookup == [metric |-> "none"]

\* The weight x / 1000 and the HHI x / 1000000 in the units of the model, which
\* hold the thirds and sixths of equally weighted positions.
Thousandths(x) == 3 * x
Millionths(x) == 9 * x

\* Weights of the loaded positions.
Weights == {Thousandths(w) : w \in {0, 125, 600, 800, 1000}}

\* Timestamps and ages are counted in half days.
Days(d) == 2 * d

\* The step of the clock.
TickStep == Days(14)

Tickers == {"AAA", "BBB"}
\* The tickers of a basket of trades.
BasketTickers == <<"AAA", "BBB", "CCC", "DDD", "EEE", "FFF", "GGG",
                   "HHH", "III", "JJJ", "KKK", "LLL", "MMM">>
Sides == {"Buy", "Sell"}
Buckets == {"Large", "Medium", "Small"}

ClientTypeOf == [c \in Clients |-> IF c = 1 THEN "Hedge Fund" ELSE "Pension Fund"]

(***************************************************************************)
(* Arithmetic helpers: SQL aggregates and ROUND.                           *)
(***************************************************************************)
Max(S) == CHOOSE x \in S : \A y \in S : y <= x

RECURSIVE SumFn(_)
SumFn(f) ==
    IF DOMAIN f = {} THEN 0
    ELSE LET x == CHOOSE y \in DOMAIN f : TRUE
         IN  f[x] + SumFn([y \in DOMAIN f \ {x} |-> f[y]])

\* SQLite ROUND of the non-negative quotient n / d to an integer: halves round up.
RoundDiv(n, d) == (2 * n + d) \div (2 * d)

\* Reduced fractions <<n, d>> with d > 0.
RECURSIVE Gcd(_, _)
Gcd(a, b) == IF b = 0 THEN a ELSE Gcd(b, a % b)
Abs(x) == IF x < 0 THEN -x ELSE x
Frac(n, d) ==
    LET g == Gcd(Abs(n), Abs(d))
        s == IF d < 0 THEN -1 ELSE 1
    IN  <<(s * n) \div g, (s * d) \div g>>
FAdd(p, q) ==
    LET g == Gcd(p[2], q[2])
    IN  Frac(p[1] * (q[2] \div g) + q[1] * (p[2] \div g), (p[2] \div g) * q[2])
FMul(p, q) ==
    LET a == Frac(p[1], q[2])
        b == Frac(q[1], p[2])
    IN  Frac(a[1] * b[1], a[2] * b[2])
FLess(p, q) ==
    LET g == Max({1, Gcd(Abs(p[1]), Abs(q[1]))})
        h == Gcd(p[2], q[2])
    IN  (p[1] \div g) * (q[2] \div h) < (q[1] \div g) * (p[2] \div h)
FMin(p, q) == IF FLess(q, p) THEN q ELSE p
FZero == <<0, 1>>

RECURSIVE FSumFn(_)
FSumFn(f) ==
    IF DOMAIN f = {} THEN FZero
    ELSE LET x == CHOOSE y \in DOMAIN f : TRUE
         IN  FAdd(f[x], FSumFn([y \in DOMAIN f \ {x} |-> f[y]]))

Pow10(k) == IF k = 0 THEN 1 ELSE IF k = 1 THEN 10 ELSE IF k = 2 THEN 100
            ELSE IF k = 3 THEN 1000 ELSE 10000

\* SQLite ROUND(p, k) of a fraction, as a decimal: halves round away from zero;
\* NULL stays NULL.
Round(p, k) ==
    IF p = NullNum THEN NullNum
    ELSE IF p[1] < 0 THEN <<-RoundDiv((-p[1]) * Pow10(k), p[2]), Pow10(k)>>
    ELSE <<RoundDiv(p[1] * Pow10(k), p[2]), Pow10(k)>>

\* The rows of bag B for which keep[row] holds, with their multiplicities.
BagFilter(B, keep) == [r \in {x \in BagToSet(B) : keep[x]} |-> B[r]]

(***************************************************************************)
(* 1. ana_client_portfolio_risk                                            *)
(***************************************************************************)
SnapshotIdsOf(c) ==
    {i \in DOMAIN src_portfolio_snapshots : src_portfolio_snapshots[i].client_id = c}

\* WITH latest_snap AS (SELECT client_id, MAX(snapshot_id) ... GROUP BY client_id)
\* (the row of client c, who has a snapshot)
latest_snap(c) == Max(SnapshotIdsOf(c))

\* The positions of one snapshot, as a bag.
PositionsOf(snap_id) ==
    BagFilter(src_positions, [r \in BagToSet(src_positions) |-> r.snapshot_id = snap_id])

\* Mutant of pos_data: the positions of every snapshot of the client are joined.
pos_data_AllSnapshots(c) ==
    BagFilter(src_positions,
              [r \in BagToSet(src_positions) |-> r.snapshot_id \in SnapshotIdsOf(c)])

\* Mutant of pos_data: the latest snapshot is read only while it is at most a week old.
pos_data_WithinAWeek(c) ==
    IF SnapshotIdsOf(c) = {} THEN EmptyBag
    ELSE IF now - Days(src_portfolio_snapshots[latest_snap(c)].as_of_date) <= Days(7)
         THEN PositionsOf(latest_snap(c))
         ELSE EmptyBag

\* pos_data: src_positions JOIN latest_snap ON ls.snap_id = p.snapshot_id
pos_data(c) ==
    IF SnapshotIdsOf(c) = {} THEN EmptyBag ELSE PositionsOf(latest_snap(c))

\* Mutant of portfolio_metrics: the HHI sums the weights, not their squares.
portfolio_metrics_Unsquared(P) ==
    LET rows == BagToSet(P)
        hhi  == SumFn([r \in rows |-> P[r] * r.weight * 3000])
    IN  [ total_weighted_vol |-> SumFn([r \in rows |-> P[r] * r.weight * 25]),
          max_weight         |-> Max({r.weight : r \in rows}),
          num_positions      |-> BagCardinality(P),
          large_pos_count    |-> SumFn([r \in rows |->
                                    IF r.weight > Thousandths(100) THEN P[r] ELSE 0]),
          hhi                |-> hhi,
          effective_positions |-> IF hhi > 0 THEN <<Millionths(1000000), hhi>> ELSE <<0, 1>> ]

\* Mutant of portfolio_metrics: the HHI is the square of the largest weight only.
portfolio_metrics_LargestOnly(P) ==
    LET rows == BagToSet(P)
        hhi  == Max({r.weight : r \in rows}) * Max({r.weight : r \in rows})
    IN  [ total_weighted_vol |-> SumFn([r \in rows |-> P[r] * r.weight * 25]),
          max_weight         |-> Max({r.weight : r \in rows}),
          num_positions      |-> BagCardinality(P),
          large_pos_count    |-> SumFn([r \in rows |->
                                    IF r.weight > Thousandths(100) THEN P[r] ELSE 0]),
          hhi                |-> hhi,
          effective_positions |-> IF hhi > 0 THEN <<Millionths(1000000), hhi>> ELSE <<0, 1>> ]

\* portfolio_metrics over a bag of positions (one GROUP BY group).
portfolio_metrics(P) ==
    LET rows == BagToSet(P)
        hhi  == SumFn([r \in rows |-> P[r] * r.weight * r.weight])
    IN  [ total_weighted_vol |-> SumFn([r \in rows |-> P[r] * r.weight * 25]),  \* 1/300000
          max_weight         |-> Max({r.weight : r \in rows}),
          num_positions      |-> BagCardinality(P),
          large_pos_count    |-> SumFn([r \in rows |->
                                    IF r.weight > Thousandths(100) THEN P[r] ELSE 0]),
          hhi                |-> hhi,                                           \* 1/9000000
          effective_positions |-> IF hhi > 0 THEN <<Millionths(1000000), hhi>> ELSE <<0, 1>> ]

\* Mutant of PortfolioRiskRow: hhi_risk_level is bucketed on the rounded HHI.
PortfolioRiskRow_LevelOfRounded(P) ==
    LET m == portfolio_metrics(P)
    IN  [ portfolio_volatility    |-> RoundDiv(m.total_weighted_vol, 30),       \* ROUND(.,4)
          max_position_weight     |-> m.max_weight,
          total_positions         |-> m.num_positions,
          large_positions         |-> m.large_pos_count,
          hhi_concentration       |-> RoundDiv(m.hhi, 900),                     \* ROUND(.,4)
          effective_num_positions |-> RoundDiv(10 * m.effective_positions[1],
                                               m.effective_positions[2]),       \* ROUND(.,1)
          hhi_risk_level          |-> IF RoundDiv(m.hhi, 900) >= 2500 THEN "Very Concentrated"
                                      ELSE IF RoundDiv(m.hhi, 900) >= 1500 THEN "Concentrated"
                                      ELSE IF RoundDiv(m.hhi, 900) >= 1000 THEN "Moderate"
                                      ELSE "Diversified",
          volatility_risk_level   |-> IF m.total_weighted_vol >= 75000 THEN "High"
                                      ELSE IF m.total_weighted_vol >= 45000 THEN "Medium"
                                      ELSE "Low",
          concentration_risk_level |-> IF m.max_weight >= Thousandths(200) THEN "Concentrated"
                                       ELSE IF m.max_weight >= Thousandths(100) THEN "Moderate"
                                       ELSE "Diversified" ]

\* The final SELECT of the view for one group of positions.
PortfolioRiskRow(P) ==
    LET m == portfolio_metrics(P)
    IN  [ portfolio_volatility    |-> RoundDiv(m.total_weighted_vol, 30),       \* ROUND(.,4)
          max_position_weight     |-> m.max_weight,
          total_positions         |-> m.num_positions,
          large_positions         |-> m.large_pos_count,
          hhi_concentration       |-> RoundDiv(m.hhi, 900),                     \* ROUND(.,4)
          effective_num_positions |-> RoundDiv(10 * m.effective_positions[1],
                                               m.effective_positions[2]),       \* ROUND(.,1)
          hhi_risk_level          |-> IF m.hhi >= Millionths(250000) THEN "Very Concentrated"
                                      ELSE IF m.hhi >= Millionths(150000) THEN "Concentrated"
                                      ELSE IF m.hhi >= Millionths(100000) THEN "Moderate"
                                      ELSE "Diversified",
          volatility_risk_level   |-> IF m.total_weighted_vol >= 75000 THEN "High"
                                      ELSE IF m.total_weighted_vol >= 45000 THEN "Medium"
                                      ELSE "Low",
          concentration_risk_level |-> IF m.max_weight >= Thousandths(200) THEN "Concentrated"
                                       ELSE IF m.max_weight >= Thousandths(100) THEN "Moderate"
                                       ELSE "Diversified" ]

ana_client_portfolio_risk(c) ==
    IF pos_data(c) = EmptyBag THEN NoRow ELSE PortfolioRiskRow(pos_data(c))

\* get_portfolio_risk: `return row or {}`
get_portfolio_risk(c) ==
    IF ana_client_portfolio_risk(c) = NoRow THEN EmptyRecord
    ELSE ana_client_portfolio_risk(c)

\* get_latest_portfolio_snapshot_id: ORDER BY as_of_date DESC ... LIMIT 1;
\* <<snapshot_id>>, or << >> for None.  (client_id, as_of_date) is UNIQUE.
get_latest_portfolio_snapshot_id(c) ==
    IF SnapshotIdsOf(c) = {} THEN << >>
    ELSE << CHOOSE i \in SnapshotIdsOf(c) :
              \A j \in SnapshotIdsOf(c) :
                src_portfolio_snapshots[j].as_of_date <= src_portfolio_snapshots[i].as_of_date >>

(***************************************************************************)
(* 2. ana_client_engagement_momentum                                       *)
(***************************************************************************)
\* julianday('now') - julianday(timestamp)
days_ago(ts) == now - ts

\* Mutant of decay_weight_14: the constant is 7 days.
decay_weight_14_SevenDays(ts) == Frac(Days(7), Days(7) + days_ago(ts))

\* 1.0 / (1.0 + days_ago / 14.0)
decay_weight_14(ts) == Frac(Days(14), Days(14) + days_ago(ts))

\* CASE notional_bucket WHEN 'Large' THEN 3.0 WHEN 'Medium' THEN 1.5 ELSE 1.0
size_weight(bucket) ==
    IF bucket = "Large" THEN <<3, 1>> ELSE IF bucket = "Medium" THEN <<3, 2>> ELSE <<1, 1>>

\* call_events: the calls of client c with days_ago <= 90
call_events(c) ==
    BagFilter(src_call_logs,
              [r \in BagToSet(src_call_logs) |->
                  r.client_id = c /\ days_ago(r.call_timestamp) <= Days(90)])

\* Mutant of trade_events: the trades of client c of any age.
trade_events_AnyAge(c) ==
    BagFilter(src_trade_executions, [r \in BagToSet(src_trade_executions) |-> r.client_id = c])

\* trade_events: the trades of client c with days_ago <= 90
trade_events(c) ==
    BagFilter(src_trade_executions,
              [r \in BagToSet(src_trade_executions) |->
                  r.client_id = c /\ days_ago(r.trade_timestamp) <= Days(90)])

in_30d(ts) == days_ago(ts) <= Days(30)
\* days_ago BETWEEN 31 AND 60
in_prior_30d(ts) == days_ago(ts) >= Days(31) /\ days_ago(ts) <= Days(60)

\* calls_decayed: one row per client with call events, else no row
calls_decayed(c) ==
    LET E == call_events(c)
        rows == BagToSet(E)
    IN  IF E = EmptyBag THEN NoRow
        ELSE [ raw_count |-> BagCardinality(E),
               decayed_count |-> FSumFn([r \in rows |->
                    FMul(<<E[r], 1>>, decay_weight_14(r.call_timestamp))]),
               decayed_duration |-> FSumFn([r \in rows |->
                    FMul(<<E[r] * r.duration_minutes, 1>>, decay_weight_14(r.call_timestamp))]),
               calls_30d |-> SumFn([r \in rows |->
                    IF in_30d(r.call_timestamp) THEN E[r] ELSE 0]),
               calls_prior_30d |-> SumFn([r \in rows |->
                    IF in_prior_30d(r.call_timestamp) THEN E[r] ELSE 0]) ]

\* trades_decayed: one row per client with trade events, else no row
trades_decayed(c) ==
    LET E == trade_events(c)
        rows == BagToSet(E)
        w(r) == FMul(<<E[r], 1>>, decay_weight_14(r.trade_timestamp))
    IN  IF E = EmptyBag THEN NoRow
        ELSE [ raw_count |-> BagCardinality(E),
               decayed_weighted_count |-> FSumFn([r \in rows |->
                    FMul(w(r), size_weight(r.notional_bucket))]),
               decayed_buys |-> FSumFn([r \in rows |->
                    IF r.side = "Buy" THEN w(r) ELSE FZero]),
               decayed_sells |-> FSumFn([r \in rows |->
                    IF r.side = "Sell" THEN w(r) ELSE FZero]),
               trades_30d |-> SumFn([r \in rows |->
                    IF in_30d(r.trade_timestamp) THEN E[r] ELSE 0]),
               trades_prior_30d |-> SumFn([r \in rows |->
                    IF in_prior_30d(r.trade_timestamp) THEN E[r] ELSE 0]),
               large_trades_30d |-> SumFn([r \in rows |->
                    IF in_30d(r.trade_timestamp) /\ r.notional_bucket = "Large"
                    THEN E[r] ELSE 0]) ]

\* COALESCE(row.field, dflt) over a LEFT JOINed row
Coalesce(row, field, dflt) == IF row = NoRow THEN dflt ELSE row[field]

\* Mutant of DivNullIf: a zero divisor yields 0.
DivNullIf_Zero(p, q) == IF q[1] = 0 THEN FZero ELSE FMul(p, <<q[2], q[1]>>)

\* p / NULLIF(q, 0)
DivNullIf(p, q) == IF q[1] = 0 THEN NullNum ELSE FMul(p, <<q[2], q[1]>>)

\* Mutant of engagement_trend: a comparison against a zero prior count is skipped.
engagement_trend_Guarded(calls_30d, calls_prior_30d, trades_30d, trades_prior_30d) ==
    IF (calls_prior_30d > 0 /\ 2 * calls_30d > 3 * calls_prior_30d)
       \/ (trades_prior_30d > 0 /\ 2 * trades_30d > 3 * trades_prior_30d)
        THEN "Accelerating"
    ELSE IF 2 * calls_30d < calls_prior_30d /\ 2 * trades_30d < trades_prior_30d
        THEN "Cooling Off"
    ELSE IF calls_30d = 0 /\ trades_30d = 0
        THEN "Dormant"
    ELSE "Stable"

\* CASE ... END AS engagement_trend, on the four raw counts
engagement_trend(calls_30d, calls_prior_30d, trades_30d, trades_prior_30d) ==
    IF 2 * calls_30d > 3 * calls_prior_30d \/ 2 * trades_30d > 3 * trades_prior_30d
        THEN "Accelerating"
    ELSE IF 2 * calls_30d < calls_prior_30d /\ 2 * trades_30d < trades_prior_30d
        THEN "Cooling Off"
    ELSE IF calls_30d = 0 /\ trades_30d = 0
        THEN "Dormant"
    ELSE "Stable"

\* Mutant of trade_probability: the decayed trade volume is not capped at 1.
trade_probability_Uncapped(dwc, dc, buys, sells) ==
    IF dwc[1] = 0 THEN <<1, 20>>
    ELSE LET ratio == DivNullIf(FMul(<<1, 5>>, buys), FAdd(buys, sells))
         IN  IF ratio = NullNum THEN NullNum
             ELSE FMin(<<19, 20>>,
                       FAdd(FAdd(<<1, 10>>, FMul(<<3, 10>>, FMul(dwc, <<1, 10>>))),
                            FAdd(FMul(<<3, 10>>, FMin(<<1, 1>>, FMul(dc, <<1, 5>>))),
                                 ratio)))

\* CASE WHEN decayed_weighted_count = 0 THEN 0.05 ELSE MIN(0.95, ...) END
trade_probability(dwc, dc, buys, sells) ==
    IF dwc[1] = 0 THEN <<1, 20>>
    ELSE LET ratio == DivNullIf(FMul(<<1, 5>>, buys), FAdd(buys, sells))
         IN  IF ratio = NullNum THEN NullNum
             ELSE FMin(<<19, 20>>,
                       FAdd(FAdd(<<1, 10>>,
                                 FMul(<<3, 10>>, FMin(<<1, 1>>, FMul(dwc, <<1, 10>>)))),
                            FAdd(FMul(<<3, 10>>, FMin(<<1, 1>>, FMul(dc, <<1, 5>>))),
                                 ratio)))

\* The view's row for client c (every client of src_clients has one).
ana_client_engagement_momentum(c) ==
    LET cd == calls_decayed(c)
        td == trades_decayed(c)
        calls_30d == Coalesce(cd, "calls_30d", 0)
        calls_prior == Coalesce(cd, "calls_prior_30d", 0)
        trades_30d == Coalesce(td, "trades_30d", 0)
        trades_prior == Coalesce(td, "trades_prior_30d", 0)
        dd == Coalesce(cd, "decayed_duration", FZero)
        dc == Coalesce(cd, "decayed_count", FZero)
        dwc == Coalesce(td, "decayed_weighted_count", FZero)
        buys == Coalesce(td, "decayed_buys", FZero)
        sells == Coalesce(td, "decayed_sells", FZero)
    IN  [ calls_last_30d |-> calls_30d,
          calls_prior_30d |-> calls_prior,
          call_momentum |-> Round(DivNullIf(<<calls_30d, 1>>, <<calls_prior, 1>>), 2),
          trades_last_30d |-> trades_30d,
          trades_prior_30d |-> trades_prior,
          trade_momentum |-> Round(DivNullIf(<<trades_30d, 1>>, <<trades_prior, 1>>), 2),
          recent_buy_ratio |-> Round(DivNullIf(buys, FAdd(buys, sells)), 2),
          large_trades_30d |-> Coalesce(td, "large_trades_30d", 0),
          engagement_score_decayed |->
              Round(FAdd(FMul(dd, <<3, 20>>), FMul(dwc, <<5, 2>>)), 1),
          engagement_score_30d |->
              Round(FAdd(FMul(dc, <<3, 1>>), FMul(dwc, <<2, 1>>)), 1),
          engagement_trend |-> engagement_trend(calls_30d, calls_prior, trades_30d, trades_prior),
          trade_probability |-> Round(trade_probability(dwc, dc, buys, sells), 2) ]

\* get_engagement_momentum: `return row or {}`
get_engagement_momentum(c) ==
    IF c \in DOMAIN src_clients THEN ana_client_engagement_momentum(c) ELSE EmptyRecord

(***************************************************************************)
(* 3. ana_client_conviction                                                *)
(***************************************************************************)
\* CASE notional_bucket WHEN 'Large' THEN 500000 WHEN 'Medium' THEN 100000 ELSE 25000
est_notional(bucket) ==
    IF bucket = "Large" THEN 500000 ELSE IF bucket = "Medium" THEN 100000 ELSE 25000

\* Mutant of decay_weight_30: the 14-day constant of the engagement view is used.
decay_weight_30_FourteenDays(ts) == Frac(Days(14), Days(14) + days_ago(ts))

\* 1.0 / (1.0 + days_ago / 30.0)
decay_weight_30(ts) == Frac(Days(30), Days(30) + days_ago(ts))

\* trade_values: the trades of client c with a ticker and days_ago <= 180
trade_values(c) ==
    BagFilter(src_trade_executions,
              [r \in BagToSet(src_trade_executions) |->
                  /\ r.client_id = c
                  /\ r.ticker # NULL
                  /\ days_ago(r.trade_timestamp) <= Days(180)])

\* The tickers of the GROUP BY client_id, ticker, stock_id groups of client c
\* (stock_id is the stock of the ticker).
traded_tickers(c) == {r.ticker : r \in BagToSet(trade_values(c))}

\* SUM(SUM(est_notional)) OVER (PARTITION BY client_id)
client_total_notional(c) ==
    LET V == trade_values(c)
    IN  SumFn([r \in BagToSet(V) |-> V[r] * est_notional(r.notional_bucket)])

\* Mutant of trade_focus: net_direction counts the trades, whatever their side.
trade_focus_Unsigned(c, tk) ==
    LET V == trade_values(c)
        rows == {r \in BagToSet(V) : r.ticker = tk}
        total == SumFn([r \in rows |-> V[r] * est_notional(r.notional_bucket)])
        share == Frac(total, client_total_notional(c))
    IN  [ ticker |-> tk,
          trade_count |-> SumFn([r \in rows |-> V[r]]),
          net_direction |-> SumFn([r \in rows |-> V[r]]),
          total_notional |-> total,
          decayed_notional |-> FSumFn([r \in rows |->
                FMul(<<V[r] * est_notional(r.notional_bucket), 1>>,
                     decay_weight_30(r.trade_timestamp))]),
          notional_focus_share |-> share,
          hhi_component |-> FMul(share, share) ]

\* Mutant of trade_focus: the focus share is the share of the trade count.
trade_focus_CountShare(c, tk) ==
    LET V == trade_values(c)
        rows == {r \in BagToSet(V) : r.ticker = tk}
        total == SumFn([r \in rows |-> V[r] * est_notional(r.notional_bucket)])
        share == Frac(SumFn([r \in rows |-> V[r]]), BagCardinality(V))
    IN  [ ticker |-> tk,
          trade_count |-> SumFn([r \in rows |-> V[r]]),
          net_direction |-> SumFn([r \in rows |-> IF r.side = "Buy" THEN V[r] ELSE -V[r]]),
          total_notional |-> total,
          decayed_notional |-> FSumFn([r \in rows |->
                FMul(<<V[r] * est_notional(r.notional_bucket), 1>>,
                     decay_weight_30(r.trade_timestamp))]),
          notional_focus_share |-> share,
          hhi_component |-> FMul(share, share) ]

\* trade_focus: the row of the group (c, tk)
trade_focus(c, tk) ==
    LET V == trade_values(c)
        rows == {r \in BagToSet(V) : r.ticker = tk}
        total == SumFn([r \in rows |-> V[r] * est_notional(r.notional_bucket)])
        share == Frac(total, client_total_notional(c))
    IN  [ ticker |-> tk,
          trade_count |-> SumFn([r \in rows |-> V[r]]),
          net_direction |-> SumFn([r \in rows |-> IF r.side = "Buy" THEN V[r] ELSE -V[r]]),
          total_notional |-> total,
          decayed_notional |-> FSumFn([r \in rows |->
                FMul(<<V[r] * est_notional(r.notional_bucket), 1>>,
                     decay_weight_30(r.trade_timestamp))]),
          notional_focus_share |-> share,
          hhi_component |-> FMul(share, share) ]

\* client_hhi: the row of client c (c has at least one traded ticker)
client_hhi(c) ==
    LET hhi == FSumFn([tk \in traded_tickers(c) |-> trade_focus(c, tk).hhi_component])
    IN  [ trade_hhi |-> hhi,
          effective_stocks_traded |-> IF hhi[1] > 0 THEN <<hhi[2], hhi[1]>> ELSE FZero ]

\* Mutant of rn_1: the tickers are ranked by total_notional, without the time decay.
rn_1_ByTotalNotional(c) ==
    {tk \in traded_tickers(c) :
        \A other \in traded_tickers(c) :
            trade_focus(c, tk).total_notional >= trade_focus(c, other).total_notional}

\* ranked WHERE rn = 1: the tickers ROW_NUMBER() OVER (... ORDER BY decayed_notional
\* DESC) may number 1; the order among equal decayed_notional is not determined.
rn_1(c) ==
    {tk \in traded_tickers(c) :
        \A other \in traded_tickers(c) :
            ~FLess(trade_focus(c, tk).decayed_notional,
                   trade_focus(c, other).decayed_notional)}

\* Mutant of ranked_rn_1_rows: RANK() numbers every tied ticker 1.
ranked_rn_1_rows_Rank(c) == Cardinality(rn_1(c))

\* The number of rows of the view for client c: ROW_NUMBER() numbers the rows of a
\* partition 1, 2, ..., so one row of each client with a trade_focus row has rn = 1.
ranked_rn_1_rows(c) == IF traded_tickers(c) = {} THEN 0 ELSE 1

\* The final SELECT of the view for client c when ticker tk is ranked first.
ConvictionRow(c, tk) ==
    LET tf == trade_focus(c, tk)
        ch == client_hhi(c)
    IN  [ top_conviction_stock |-> tk,
          trade_count |-> tf.trade_count,
          call_mentions |-> 0,
          net_direction |-> tf.net_direction,
          trade_concentration |-> Round(tf.notional_focus_share, 3),
          conviction_score |-> Round(FMul(tf.decayed_notional, <<1, 10000>>), 1),
          trade_hhi |-> Round(ch.trade_hhi, 4),
          effective_stocks_traded |-> Round(ch.effective_stocks_traded, 1),
          conviction_level |-> IF ~FLess(ch.trade_hhi, <<1, 4>>) THEN "Very High"
                               ELSE IF ~FLess(ch.trade_hhi, <<3, 20>>) THEN "High"
                               ELSE IF ~FLess(ch.trade_hhi, <<2, 25>>) THEN "Moderate"
                               ELSE "Diversified",
          sentiment_signal |-> IF tf.net_direction > 0 THEN "Bullish"
                               ELSE IF tf.net_direction < 0 THEN "Bearish"
                               ELSE "Neutral" ]

\* The rows the view may hold for client c: none, or one.
ana_client_conviction(c) ==
    IF traded_tickers(c) = {} THEN {NoRow} ELSE {ConvictionRow(c, tk) : tk \in rn_1(c)}

\* get_conviction: `return row or {}`
get_conviction(row) == IF row = NoRow THEN EmptyRecord ELSE row

(***************************************************************************)
(* 6. int_client_risk_multifactor                                          *)
(***************************************************************************)
\* investor_type_risk: CASE client_type WHEN ... END AS type_risk_score
type_risk_score(client_type) ==
    IF client_type \in {"HedgeFund", "Hedge Fund"} THEN 85
    ELSE IF client_type \in {"FamilyOffice", "Family Office"} THEN 65
    ELSE IF client_type \in {"AssetManager", "Asset Manager"} THEN 55
    ELSE IF client_type = "Insurance" THEN 35
    ELSE IF client_type \in {"PensionFund", "Pension Fund"} THEN 30
    ELSE 50

\* trading_behavior: one row per client with a trade of days_ago <= 180, else no row
trading_behavior(c) ==
    LET T == BagFilter(src_trade_executions,
                       [r \in BagToSet(src_trade_executions) |->
                           r.client_id = c /\ days_ago(r.trade_timestamp) <= Days(180)])
        n == BagCardinality(T)
    IN  IF T = EmptyBag THEN NoRow
        ELSE [ trade_count |-> n,
               turnover_risk_score |-> IF n > 50 THEN 75 ELSE IF n > 20 THEN 55
                                       ELSE IF n > 5 THEN 40 ELSE 25 ]

\* position_size: src_positions JOIN src_portfolio_snapshots GROUP BY ps.client_id
position_size(c) ==
    LET P == BagFilter(src_positions,
                       [r \in BagToSet(src_positions) |-> r.snapshot_id \in SnapshotIdsOf(c)])
        max_weight == Max({r.weight : r \in BagToSet(P)})
    IN  IF P = EmptyBag THEN NoRow
        ELSE [ max_weight |-> max_weight,
               position_risk_score |-> IF max_weight > Thousandths(150) THEN 70
                                       ELSE IF max_weight > Thousandths(80) THEN 50 ELSE 35 ]

\* Mutant of composite_score: the trading factor dominates the investor type.
composite_score_TradingDominant(itf, tf, pf) == 20 * itf + 55 * tf + 25 * pf

\* Mutant of composite_score: the three factors are weighted equally.
composite_score_EqualWeights(itf, tf, pf) == 33 * itf + 33 * tf + 34 * pf

\* 0.40 * investor_type_factor + 0.35 * trading_factor + 0.25 * position_factor, in 10^-4
composite_score(itf, tf, pf) == 40 * itf + 35 * tf + 25 * pf

\* The view's row for client c (every client of src_clients has one).
int_client_risk_multifactor(c) ==
    LET itf == type_risk_score(src_clients[c])
        tf == Coalesce(trading_behavior(c), "turnover_risk_score", 40)
        pf == Coalesce(position_size(c), "position_risk_score", 40)
        score == composite_score(itf, tf, pf)
    IN  [ client_type |-> src_clients[c],
          investor_type_factor |-> itf,
          trading_factor |-> tf,
          position_factor |-> pf,
          composite_risk_score |-> RoundDiv(score, 10),                         \* ROUND(.,3)
          risk_category |-> IF score >= 6000 THEN "Aggressive"
                            ELSE IF score >= 4200 THEN "Moderate"
                            ELSE "Conservative",
          trade_activity |-> Coalesce(trading_behavior(c), "trade_count", 0) ]

(***************************************************************************)
(* 0b. int_client_profile and 5. int_client_risk_enhanced                  *)
(***************************************************************************)
\* CASE WHEN client_type LIKE '%Hedge%' ... END AS risk_appetite
risk_appetite(client_type) ==
    IF client_type \in {"HedgeFund", "Hedge Fund"} THEN "Aggressive"
    ELSE IF client_type \in {"PensionFund", "Pension Fund", "Insurance"} THEN "Conservative"
    ELSE "Moderate"

\* LEFT JOINed row.field: NULL when the joined view has no row for the client
Joined(row, field) == IF row = NoRow THEN NULL ELSE row[field]

\* The view's row for client c, given the row cv of ana_client_conviction joined to it.
int_client_risk_enhanced(c, cv) ==
    LET pr == ana_client_portfolio_risk(c)
        em == ana_client_engagement_momentum(c)
        vol == Coalesce(pr, "portfolio_volatility", 2000)
    IN  [ original_risk_appetite |-> risk_appetite(src_clients[c]),
          enhanced_risk_level |-> IF vol >= 2500 THEN "High"
                                  ELSE IF vol >= 1500 THEN "Medium" ELSE "Low",
          enhanced_risk_score |-> 5000,
          portfolio_volatility |-> vol,
          volatility_risk_level |-> Joined(pr, "volatility_risk_level"),
          concentration_risk_level |-> Joined(pr, "concentration_risk_level"),
          engagement_trend |-> em.engagement_trend,
          trade_momentum |-> em.trade_momentum,
          call_momentum |-> em.call_momentum,
          recent_buy_ratio |-> em.recent_buy_ratio,
          top_conviction_stock |-> Joined(cv, "top_conviction_stock"),
          conviction_level |-> Joined(cv, "conviction_level"),
          sentiment_signal |-> Joined(cv, "sentiment_signal"),
          action_signal |-> IF em.engagement_trend = "Accelerating"
                                THEN "Hot Lead - High Activity"
                            ELSE IF em.engagement_trend = "Cooling Off"
                                THEN "Re-engage - Activity Declining"
                            ELSE IF em.engagement_trend = "Dormant"
                                THEN "Wake Up Call Needed"
                            ELSE "Normal Engagement" ]

\* get_enhanced_risk: the columns it selects of the row
get_enhanced_risk(row) ==
    [f \in {"original_risk_appetite", "enhanced_risk_level", "enhanced_risk_score",
             "portfolio_volatility", "volatility_risk_level", "concentration_risk_level",
             "engagement_trend", "trade_momentum", "top_conviction_stock",
             "conviction_level", "sentiment_signal", "action_signal"} |-> row[f]]

(***************************************************************************)
(* The store and the lookups as a state machine.                           *)
(***************************************************************************)
Init ==
    /\ src_clients = ClientTypeOf
    /\ src_portfolio_snapshots = << >>
    /\ src_positions = EmptyBag
    /\ src_trade_executions = EmptyBag
    /\ src_call_logs = EmptyBag
    /\ now = 0
    /\ last = NoLookup
    /\ inflight = [i \in 1..MaxInflight |-> Idle]
    /\ ai_generation_history = << >>

EventCount == BagCardinality(src_trade_executions) + BagCardinality(src_call_logs)
RowCount == Len(src_portfolio_snapshots) + BagCardinality(src_positions) + EventCount

\* A data load inserts a snapshot of client c as of date d; UNIQUE(client_id, as_of_date).
LoadSnapshot(c, d) ==
    /\ Len(src_portfolio_snapshots) < MaxSnapshots
    /\ \A i \in DOMAIN src_portfolio_snapshots :
          ~(src_portfolio_snapshots[i].client_id = c /\ src_portfolio_snapshots[i].as_of_date = d)
    /\ src_portfolio_snapshots' =
          Append(src_portfolio_snapshots, [client_id |-> c, as_of_date |-> d])
    /\ last' = NoLookup
    /\ UNCHANGED <<src_clients, src_positions, src_trade_executions, src_call_logs, now, requests>>

\* A data load inserts a position of weight w into snapshot snap_id.
LoadPosition(snap_id, w) ==
    /\ BagCardinality(src_positions) < MaxPositions
    /\ snap_id \in DOMAIN src_portfolio_snapshots
    /\ src_positions' = src_positions (+) SetToBag({[snapshot_id |-> snap_id, weight |-> w]})
    /\ last' = NoLookup
    /\ UNCHANGED <<src_clients, src_portfolio_snapshots, src_trade_executions,
                   src_call_logs, now, requests>>

\* A data load inserts n positions of weight w into snapshot snap_id.
LoadPositions(snap_id, w, n) ==
    LET row == [snapshot_id |-> snap_id, weight |-> w]
    IN  /\ snap_id \in DOMAIN src_portfolio_snapshots
        /\ row \notin BagToSet(src_positions)
        /\ src_positions' = src_positions (+) (row :> n)
        /\ last' = NoLookup
        /\ UNCHANGED <<src_clients, src_portfolio_snapshots, src_trade_executions,
                       src_call_logs, now, requests>>

\* A data load inserts a trade.
LoadTrade(c, tk, side, bucket, ts) ==
    /\ EventCount < MaxEvents
    /\ src_trade_executions' = src_trade_executions (+)
          SetToBag({[client_id |-> c, ticker |-> tk, side |-> side,
                     notional_bucket |-> bucket, trade_timestamp |-> ts]})
    /\ last' = NoLookup
    /\ UNCHANGED <<src_clients, src_portfolio_snapshots, src_positions, src_call_logs, now, requests>>

\* A data load inserts a call.
LoadCall(c, minutes, ts) ==
    /\ EventCount < MaxEvents
    /\ src_call_logs' = src_call_logs (+)
          SetToBag({[client_id |-> c, duration_minutes |-> minutes, call_timestamp |-> ts]})
    /\ last' = NoLookup
    /\ UNCHANGED <<src_clients, src_portfolio_snapshots, src_positions,
                   src_trade_executions, now, requests>>

\* A data load inserts n trades of client c in one ticker at one timestamp
\* (the client has no such trade yet).
LoadTrades(c, tk, side, bucket, ts, n) ==
    LET row == [client_id |-> c, ticker |-> tk, side |-> side,
                notional_bucket |-> bucket, trade_timestamp |-> ts]
    IN  /\ row \notin BagToSet(src_trade_executions)
        /\ src_trade_executions' = src_trade_executions (+) (row :> n)
        /\ last' = NoLookup
        /\ UNCHANGED <<src_clients, src_portfolio_snapshots, src_positions, src_call_logs, now, requests>>

\* A data load inserts n calls of client c at one timestamp
\* (the client has no such call yet).
LoadCalls(c, minutes, ts, n) ==
    LET row == [client_id |-> c, duration_minutes |-> minutes, call_timestamp |-> ts]
    IN  /\ row \notin BagToSet(src_call_logs)
        /\ src_call_logs' = src_call_logs (+) (row :> n)
        /\ last' = NoLookup
        /\ UNCHANGED <<src_clients, src_portfolio_snapshots, src_positions,
                       src_trade_executions, now, requests>>

\* A data load into the empty trade table inserts one trade of client c in each of
\* the first k tickers: of the given bucket in the first, Small in the others.
LoadBasket(c, k, side, bucket, ts) ==
    /\ src_trade_executions = EmptyBag
    /\ src_trade_executions' =
          SetToBag({[client_id |-> c, ticker |-> BasketTickers[i], side |-> side,
                     notional_bucket |-> IF i = 1 THEN bucket ELSE "Small",
                     trade_timestamp |-> ts] : i \in 1..k})
    /\ last' = NoLookup
    /\ UNCHANGED <<src_clients, src_portfolio_snapshots, src_positions, src_call_logs, now, requests>>

\* Time passes: julianday('now') grows.
Tick ==
    /\ now < MaxTicks * TickStep
    /\ now' = now + TickStep
    /\ UNCHANGED <<tables, last, requests>>

\* The answer of a lookup made now.  first_at is the time of the first of the
\* consecutive lookups of this metric for this client against the current tables.
Answer(metric, c, rec) ==
    [ metric |-> metric, client |-> c, at |-> now, rec |-> rec,
      first_at |-> IF last.metric = metric /\ last.client = c THEN last.first_at ELSE now ]

GetPortfolioRisk(c) ==
    /\ last' = Answer("portfolio_risk", c, get_portfolio_risk(c))
    /\ UNCHANGED <<tables, now, requests>>

GetEngagementMomentum(c) ==
    /\ last' = Answer("engagement_momentum", c, get_engagement_momentum(c))
    /\ UNCHANGED <<tables, now, requests>>

GetConviction(c) ==
    /\ \E row \in ana_client_conviction(c) :
          last' = Answer("conviction", c, get_conviction(row))
    /\ UNCHANGED <<tables, now, requests>>

GetCompositeRisk(c) ==
    /\ last' = Answer("composite_risk", c, int_client_risk_multifactor(c))
    /\ UNCHANGED <<tables, now, requests>>

GetEnhancedRisk(c) ==
    /\ \E cv \in ana_client_conviction(c) :
          last' = Answer("enhanced_risk", c, get_enhanced_risk(int_client_risk_enhanced(c, cv)))
    /\ UNCHANGED <<tables, now, requests>>

\* The metrics that are looked up concurrently.
LookupMetrics == {"portfolio_risk", "engagement_momentum", "conviction"}

\* The rows the SELECT of a metric lookup may fetch for client c now, with the {}
\* of `row or {}`.
view_rows(metric, c) ==
    IF metric = "portfolio_risk" THEN {get_portfolio_risk(c)}
    ELSE IF metric = "engagement_momentum" THEN {get_engagement_momentum(c)}
    ELSE {get_conviction(row) : row \in ana_client_conviction(c)}

\* Mutant of _query_one: the threads share one cursor, and a query finds the row
\* another thread has fetched and not yet returned.
_query_one_SharedCursor(metric, c) ==
    IF \E j \in 1..MaxInflight : inflight[j].pc = "fetched"
    THEN {inflight[j].rec : j \in {k \in 1..MaxInflight : inflight[k].pc = "fetched"}}
    ELSE view_rows(metric, c)

\* _query_one: a connection of its own, one SELECT, fetchone, close.
_query_one(metric, c) == view_rows(metric, c)

\* A lookup is called: fetch_one hands _query_one to a free worker thread.
CallLookup(i, metric, c) ==
    /\ inflight[i].pc = "idle"
    /\ \A j \in 1..(i - 1) : inflight[j].pc # "idle"
    /\ inflight' = [inflight EXCEPT ![i] = [pc |-> "called", metric |-> metric, client |-> c]]
    /\ UNCHANGED <<tables, now, last, ai_generation_history>>

\* The worker thread of lookup i runs its query.
RunQuery(i) ==
    /\ inflight[i].pc = "called"
    /\ \E rec \in _query_one(inflight[i].metric, inflight[i].client) :
          inflight' = [inflight EXCEPT ![i] =
                          [pc |-> "fetched", metric |-> inflight[i].metric,
                           client |-> inflight[i].client, rec |-> rec]]
    /\ UNCHANGED <<tables, now, last, ai_generation_history>>

\* Lookup i returns the row it fetched, or {}, to its caller.
ReturnLookup(i) ==
    /\ inflight[i].pc = "fetched"
    /\ inflight' = [inflight EXCEPT ![i] = Idle]
    /\ UNCHANGED <<tables, now, last, ai_generation_history>>

\* JSON values of the LLM answer: an object with a ticker, a list, anything else.
Dict(t) == [type |-> "dict", ticker |-> t]
Text == [type |-> "str"]
List(items) == [type |-> "list", items |-> items]
Dicts(n) == [i \in 1..n |-> Dict(i)]

\* The values of "shortlist" and of "top_picks" in the JSON the LLM returns.
LLMShortlists ==
    { Text, List(Dicts(4)), List(Dicts(5)), List(Dicts(10)), List(Dicts(11)),
      List([i \in 1..6 |-> IF i <= 2 THEN Text ELSE Dict(i)]),
      List([i \in 1..5 |-> Text]) }
LLMTopPicks == {Text, List(<< >>), List(<<1>>), List(<<1, 2>>), List(<<1, 2, 3>>)}

\* The LLM has not answered.
NoAnswer == [shortlist |-> Text, top_picks |-> Text]

\* What stops api_shortlist and api_story_for_stock before the LLM has answered,
\* and what stops the PDF export.
ShortlistFaults == {"none", "no_api_key", "no_candidates", "llm_error"}
StoryFaults == {"none", "no_api_key", "ticker_not_found", "llm_error"}
PdfFaults == {"none", "no_reportlab", "render_error"}

\* The slice seq[:n] of Python, for n >= 0.
Take(seq, n) == SubSeq(seq, 1, IF n < Len(seq) THEN n ELSE Len(seq))

ErrorResponse == [error |-> TRUE]

\* The body of api_shortlist up to log_generation: the response without its
\* generation_id, or the error response of the except clause.
shortlist_payload(c, fault, data) ==
    IF fault # "none" THEN ErrorResponse
    ELSE IF data.shortlist.type # "list" THEN ErrorResponse
    ELSE IF Len(data.shortlist.items) < 5 THEN ErrorResponse
    ELSE LET shortlist == Take(data.shortlist.items, 10)
             is_dict(item) == item.type = "dict"
             fallback == [i \in 1..Len(SelectSeq(Take(shortlist, 2), is_dict)) |->
                             SelectSeq(Take(shortlist, 2), is_dict)[i].ticker]
             top_picks == IF data.top_picks.type # "list" THEN fallback
                          ELSE IF Len(data.top_picks.items) < 1 THEN fallback
                          ELSE data.top_picks.items
             cleaned == [i \in 1..Len(SelectSeq(shortlist, is_dict)) |->
                            SelectSeq(shortlist, is_dict)[i].ticker]
         IN  [ client_id |-> c, shortlist |-> Take(cleaned, 10),
               top_picks |-> Take(top_picks, 2) ]

\* created_at of a new row: datetime('now') in whole seconds, the second of the
\* row before it or a later one.
CreatedAtNow ==
    LET prev == IF ai_generation_history = << >> THEN 0
                ELSE ai_generation_history[Len(ai_generation_history)].created_at
    IN  {prev, prev + 1}

\* log_generation: one INSERT; generation_id is the AUTOINCREMENT key.
log_generation(c, generation_type, created_at) ==
    Append(ai_generation_history,
           [ generation_id |-> Len(ai_generation_history) + 1, client_id |-> c,
             generation_type |-> generation_type, created_at |-> created_at ])

Response(endpoint, c, rec) == [metric |-> endpoint, client |-> c, rec |-> rec]

\* POST /api/shortlist.
ApiShortlist(c, fault, data) ==
    LET payload == shortlist_payload(c, fault, data)
    IN  /\ IF payload = ErrorResponse
           THEN /\ last' = Response("/api/shortlist", c, payload)
                /\ UNCHANGED ai_generation_history
           ELSE /\ Len(ai_generation_history) < MaxGenerations
                /\ \E created_at \in CreatedAtNow :
                      ai_generation_history' = log_generation(c, "shortlist", created_at)
                /\ last' = Response("/api/shortlist", c,
                                    [ client_id |-> c, shortlist |-> payload.shortlist,
                                      top_picks |-> payload.top_picks,
                                      generation_id |-> Len(ai_generation_history) + 1 ])
        /\ UNCHANGED <<tables, now, inflight>>

\* POST /api/story_for_stock.
ApiStoryForStock(c, fault) ==
    /\ IF fault # "none"
       THEN /\ last' = Response("/api/story_for_stock", c, ErrorResponse)
            /\ UNCHANGED ai_generation_history
       ELSE /\ Len(ai_generation_history) < MaxGenerations
            /\ \E created_at \in CreatedAtNow :
                  ai_generation_history' = log_generation(c, "story", created_at)
            /\ last' = Response("/api/story_for_stock", c,
                                [ client_id |-> c,
                                  generation_id |-> Len(ai_generation_history) + 1 ])
    /\ UNCHANGED <<tables, now, inflight>>

\* POST /api/shortlist.pdf: api_shortlist is run as it is for /api/shortlist, and
\* the PDF is built from its response.
ApiShortlistPdf(c, fault, data, pdf_fault) ==
    LET payload == shortlist_payload(c, fault, data)
    IN  /\ IF pdf_fault = "no_reportlab" \/ payload = ErrorResponse
           THEN /\ last' = Response("/api/shortlist.pdf", c, ErrorResponse)
                /\ UNCHANGED ai_generation_history
           ELSE /\ Len(ai_generation_history) < MaxGenerations
                /\ \E created_at \in CreatedAtNow :
                      ai_generation_history' = log_generation(c, "shortlist", created_at)
                /\ last' = Response("/api/shortlist.pdf", c,
                                    IF pdf_fault = "render_error" THEN ErrorResponse
                                    ELSE [pdf |-> payload.shortlist])
        /\ UNCHANGED <<tables, now, inflight>>

\* The limits asked of GET /api/history/{client_id}.
Limits == {-1, 0, 1, 2, 50}

\* get_generation_history: the rows of client c, ORDER BY created_at DESC, rows
\* of the same second in any order, LIMIT limit; a negative LIMIT is no limit.
get_generation_history(c, limit) ==
    LET ids == {i \in DOMAIN ai_generation_history : ai_generation_history[i].client_id = c}
        n == Cardinality(ids)
        orders == {o \in [1..n -> ids] :
                      /\ \A i, j \in 1..n : i # j => o[i] # o[j]
                      /\ \A i, j \in 1..n :
                            i < j => ai_generation_history[o[i]].created_at
                                        >= ai_generation_history[o[j]].created_at}
    IN  { [i \in 1..(IF limit < 0 \/ limit > n THEN n ELSE limit) |->
              ai_generation_history[o[i]]] : o \in orders }

\* GET /api/history/{client_id}?limit=.
ApiHistory(c, limit) ==
    /\ \E history \in get_generation_history(c, limit) :
          last' = [ metric |-> "/api/history", client |-> c, limit |-> limit,
                    rec |-> [client_id |-> c, history |-> history] ]
    /\ UNCHANGED <<tables, now, requests>>

\* The rows of src_stocks; ticker is UNIQUE.
src_stocks ==
    << [stock_id |-> 1, ticker |-> "AAA", sector |-> "Tech", theme_tag |-> "AI"],
       [stock_id |-> 2, ticker |-> "BBB", sector |-> "Tech", theme_tag |-> "Cloud"],
       [stock_id |-> 3, ticker |-> "CCC", sector |-> "Energy", theme_tag |-> "AI"],
       [stock_id |-> 4, ticker |-> "DDD", sector |-> "Energy", theme_tag |-> "Grid"] >>

\* The signals of a client that build_candidate_universe reads from the views:
\* the tickers of get_top_positions, the hinted, read and called tickers, the
\* stock ids of the calls, top_sector and top_theme.
HeldTickers == {{}, {"CCC"}}
SignalTickers == {{}, {"AAA", "CCC"}}
CallStockIds == {{}, {1, 3}}
TopSectors == {"", "Tech"}
TopThemes == {"", "AI"}
\* max_candidates of ShortlistRequest, an int without validation.
MaxCandidates == {-1, 0, 1, 2, 120}

\* The slice seq[:n] of Python, n of either sign.
Slice(seq, n) ==
    IF n >= 0 THEN Take(seq, n)
    ELSE IF Len(seq) + n > 0 THEN SubSeq(seq, 1, Len(seq) + n) ELSE << >>

\* build_avoid_tickers: the tickers of the top 15 positions and of the 15 most
\* recent trades; a client has fewer than 15 trades here.
build_avoid_tickers(c, held) ==
    held \cup {t.ticker : t \in {r \in BagToSet(src_trade_executions) :
                                       r.client_id = c /\ r.ticker # NULL}}

\* The merge of build_candidate_universe: the first row of each stock_id whose
\* ticker is not avoided, in the order of the groups.
RECURSIVE merge(_, _, _)
merge(rows, avoid, merged) ==
    IF rows = << >> THEN merged
    ELSE LET s == Head(rows)
             seen == \E i \in DOMAIN merged : merged[i].stock_id = s.stock_id
         IN  merge(Tail(rows), avoid,
                   IF s.ticker \in avoid \/ seen THEN merged ELSE Append(merged, s))

\* build_candidate_universe; the rows of a SELECT come in the order of stock_id.
build_candidate_universe(c, max_candidates, held, signals, call_stock_ids, top_sector, top_theme) ==
    LET avoid == build_avoid_tickers(c, held)
        ticker_pool == signals \ avoid
        in_pool(s) == s.ticker \in ticker_pool
        by_id(s) == s.stock_id \in call_stock_ids
        focused(s) == \/ top_sector # "" /\ s.sector = top_sector
                      \/ top_theme # "" /\ s.theme_tag = top_theme
        other(s) == top_sector = "" \/ s.sector # top_sector
        stocks_by_ticker == SelectSeq(src_stocks, in_pool)
        stocks_by_id == SelectSeq(src_stocks, by_id)
        sector_theme_stocks == SelectSeq(src_stocks, focused)
        diversifiers == SelectSeq(src_stocks, other)
        merged == merge(stocks_by_ticker \o stocks_by_id \o sector_theme_stocks
                           \o diversifiers, avoid, << >>)
    IN  Slice(merged, max_candidates)

\* build_candidate_universe is called for client c.
BuildCandidateUniverse(c, max_candidates, held, signals, call_stock_ids, top_sector, top_theme) ==
    /\ last' = [ metric |-> "candidate_universe", client |-> c,
                 max_candidates |-> max_candidates,
                 avoid |-> build_avoid_tickers(c, held),
                 rec |-> build_candidate_universe(c, max_candidates, held, signals,
                                                  call_stock_ids, top_sector, top_theme) ]
    /\ UNCHANGED <<tables, now, requests>>

\* The distinct rows of src_trade_executions and src_call_logs.
DistinctEvents ==
    Cardinality(BagToSet(src_trade_executions)) + Cardinality(BagToSet(src_call_logs))

\* The numbers of tickers of a basket: trade_hhi 1/4, 1/5, 1/7 and 1/13 for equal trades.
BasketSizes == {4, 5, 7, 13}

\* Event ages at the start, in half days: today, 40 days, 95 days, 170 days, 181 days.
EngagementAges == {0, Days(40), Days(95)}
ConvictionAges == {0, Days(170), Days(181)}
CallMinutes == {30}

\* The portfolio tables are loaded and the position-based lookups are made.
NextPortfolio ==
    \/ \E c \in Clients, d \in Dates : LoadSnapshot(c, d)
    \/ \E snap_id \in 1..MaxSnapshots, w \in Weights : LoadPosition(snap_id, w)
    \/ \E c \in Clients : GetPortfolioRisk(c)
    \/ \E c \in Clients : GetCompositeRisk(c)
    \/ \E c \in Clients : GetEnhancedRisk(c)

SpecPortfolio == Init /\ [][NextPortfolio]_vars

\* Calls and trades are loaded and engagement momentum is looked up.
NextEngagement ==
    \/ \E c \in Clients, side \in Sides, bucket \in {"Large", "Small"}, a \in EngagementAges :
          LoadTrade(c, "AAA", side, bucket, -a)
    \/ \E c \in Clients, m \in CallMinutes, a \in EngagementAges : LoadCall(c, m, -a)
    \/ /\ DistinctEvents < MaxEvents
       /\ \E c \in Clients : LoadTrades(c, "AAA", "Sell", "Large", 0, 4)
    \/ /\ DistinctEvents < MaxEvents
       /\ \E c \in Clients, m \in CallMinutes : LoadCalls(c, m, 0, 6)
    \/ \E c \in Clients : GetEngagementMomentum(c)

SpecEngagement == Init /\ [][NextEngagement]_vars

\* Trades are loaded and conviction is looked up.
NextConviction ==
    \/ \E c \in Clients, tk \in Tickers \cup {NULL}, side \in Sides,
           bucket \in {"Medium", "Small"}, a \in ConvictionAges :
          LoadTrade(c, tk, side, bucket, -a)
    \/ /\ DistinctEvents < MaxEvents
       /\ \E c \in Clients, tk \in Tickers, a \in {0, Days(170)} :
             LoadTrades(c, tk, "Sell", "Small", -a, 2)
    \/ \E c \in Clients, k \in BasketSizes, bucket \in {"Medium", "Small"} :
          LoadBasket(c, k, "Buy", bucket, 0)
    \/ \E c \in Clients : GetConviction(c)

SpecConviction == Init /\ [][NextConviction]_vars

\* The client types of the composite-risk lookups, the trade counts of a batch and
\* the position weights around the breakpoints of the factors.
CompositeClientTypes ==
    { [c \in Clients |-> IF c = 1 THEN "Hedge Fund" ELSE "Pension Fund"],
      [c \in Clients |-> IF c = 1 THEN "Family Office" ELSE "Insurance"],
      [c \in Clients |-> IF c = 1 THEN "Asset Manager" ELSE "Bank"] }
BatchSizes == {5, 6, 20, 21, 50, 51, 60}
CompositeWeights == {Thousandths(w) : w \in {80, 150, 200}}
LoadCount ==
    Len(src_portfolio_snapshots) + BagCardinality(src_positions)
        + Cardinality(BagToSet(src_trade_executions))

InitComposite ==
    /\ src_clients \in CompositeClientTypes
    /\ src_portfolio_snapshots = << >>
    /\ src_positions = EmptyBag
    /\ src_trade_executions = EmptyBag
    /\ src_call_logs = EmptyBag
    /\ now = 0
    /\ last = NoLookup
    /\ inflight = [i \in 1..MaxInflight |-> Idle]
    /\ ai_generation_history = << >>

\* Snapshots, positions and batches of trades are loaded and composite risk is looked up.
NextComposite ==
    \/ /\ LoadCount < MaxLoads
       /\ \/ \E c \in Clients : LoadSnapshot(c, 1)
          \/ \E snap_id \in 1..MaxSnapshots, w \in CompositeWeights : LoadPosition(snap_id, w)
          \/ \E c \in Clients, a \in {0, Days(181)}, n \in BatchSizes :
                LoadTrades(c, "AAA", "Buy", "Small", -a, n)
    \/ \E c \in Clients : GetCompositeRisk(c)

SpecComposite == InitComposite /\ [][NextComposite]_vars

\* The ages of the events of the decay and window properties, in half days: events
\* dated after the evaluation time, at the half-lives and around the bounds of
\* the raw 30-day windows.
DecayAges == {-Days(20), -Days(10), 0, Days(14), Days(30), Days(30) + 1, Days(31),
              Days(60)}

\* Calls and trades of any of these ages are loaded and the two views that decay
\* their events are looked up.
NextDecay ==
    \/ \E c \in Clients, m \in CallMinutes, a \in DecayAges : LoadCall(c, m, -a)
    \/ \E c \in Clients, a \in DecayAges : LoadTrade(c, "AAA", "Buy", "Small", -a)
    \/ \E c \in Clients : GetEngagementMomentum(c)
    \/ \E c \in Clients : GetConviction(c)

SpecDecay == Init /\ [][NextDecay]_vars

\* Data of client 1 is loaded and time passes while metric lookups of both
\* clients run concurrently.
NextConcurrent ==
    \/ /\ RowCount < MaxRows
       /\ \/ LoadSnapshot(1, 1)
          \/ LoadPosition(1, Thousandths(800))
          \/ LoadTrade(1, "AAA", "Buy", "Small", 0)
          \/ LoadCall(1, 30, 0)
    \/ Tick
    \/ \E i \in 1..MaxInflight, metric \in LookupMetrics, c \in Clients : CallLookup(i, metric, c)
    \/ \E i \in 1..MaxInflight : RunQuery(i)
    \/ \E i \in 1..MaxInflight : ReturnLookup(i)

SpecConcurrent == Init /\ [][NextConcurrent]_vars

\* Trades are loaded and candidate universes are built.
NextCandidates ==
    \/ \E c \in Clients, tk \in {"AAA", "BBB", NULL} : LoadTrade(c, tk, "Buy", "Small", 0)
    \/ \E c \in Clients, max_candidates \in MaxCandidates, held \in HeldTickers,
          signals \in SignalTickers, call_stock_ids \in CallStockIds,
          top_sector \in TopSectors, top_theme \in TopThemes :
          BuildCandidateUniverse(c, max_candidates, held, signals, call_stock_ids,
                                 top_sector, top_theme)

SpecCandidates == Init /\ [][NextCandidates]_vars

\* Requests to the generation endpoints and to the audit trail.
NextGeneration ==
    \/ \E c \in Clients, fault \in ShortlistFaults \ {"none"} :
          ApiShortlist(c, fault, NoAnswer)
    \/ \E c \in Clients, shortlist \in LLMShortlists, top_picks \in LLMTopPicks :
          ApiShortlist(c, "none", [shortlist |-> shortlist, top_picks |-> top_picks])
    \/ \E c \in Clients, fault \in StoryFaults : ApiStoryForStock(c, fault)
    \/ \E c \in Clients, fault \in ShortlistFaults \ {"none"} :
          ApiShortlistPdf(c, fault, NoAnswer, "none")
    \/ \E c \in Clients, pdf_fault \in PdfFaults, shortlist \in LLMShortlists :
          ApiShortlistPdf(c, "none", [shortlist |-> shortlist, top_picks |-> Text],
                          pdf_fault)
    \/ \E c \in Clients, limit \in Limits : ApiHistory(c, limit)

SpecGeneration == Init /\ [][NextGeneration]_vars

\* The position weights around the breakpoints of hhi_risk_level and the sizes of
\* the equally weighted snapshots.
ConcentrationWeights == {Thousandths(w) : w \in {31, 100, 300, 387, 499, 500}}
EqualCounts == {1, 2, 3, 4, 5, 6, 8}

\* Snapshots are loaded with single positions or with n positions of weight 1/n,
\* and the portfolio risk is looked up.
NextConcentration ==
    \/ \E c \in Clients, d \in Dates : LoadSnapshot(c, d)
    \/ /\ Cardinality(BagToSet(src_positions)) < MaxPositions
       /\ \/ \E snap_id \in 1..MaxSnapshots, w \in ConcentrationWeights :
                LoadPositions(snap_id, w, 1)
          \/ \E snap_id \in 1..MaxSnapshots, n \in EqualCounts :
                LoadPositions(snap_id, Thousandths(1000) \div n, n)
    \/ \E c \in Clients : GetPortfolioRisk(c)

SpecConcentration == Init /\ [][NextConcentration]_vars

\* All tables are loaded, time passes, and every lookup is made.
Next ==
    \/ /\ RowCount < MaxRows
       /\ \/ \E c \in Clients, d \in Dates : LoadSnapshot(c, d)
          \/ \E snap_id \in 1..MaxSnapshots, w \in {Thousandths(125), Thousandths(800)} :
                 LoadPosition(snap_id, w)
          \/ \E c \in Clients, tk \in Tickers, bucket \in {"Medium", "Small"},
                 a \in {0, Days(170)} : LoadTrade(c, tk, "Buy", bucket, -a)
          \/ \E c \in Clients, m \in CallMinutes, a \in {0, Days(40)} : LoadCall(c, m, -a)
    \/ Tick
    \/ \E c \in Clients : GetPortfolioRisk(c)
    \/ \E c \in Clients : GetEngagementMomentum(c)
    \/ \E c \in Clients : GetConviction(c)
    \/ \E c \in Clients : GetCompositeRisk(c)
    \/ \E c \in Clients : GetEnhancedRisk(c)

Spec == Init /\ [][Next]_vars

(***************************************************************************)
(* Properties of the lookups.                                              *)
(***************************************************************************)
Asked(metric) == last.metric = metric

\* The positions of the client's snapshot with the maximum as-of date.
PositionsOfLatestByDate(c) ==
    IF get_latest_portfolio_snapshot_id(c) = << >> THEN EmptyBag
    ELSE PositionsOf(get_latest_portfolio_snapshot_id(c)[1])

\* The snapshot ids of client c follow its as-of dates.
IdsFollowDates(c) ==
    \A i, j \in SnapshotIdsOf(c) :
        i < j => src_portfolio_snapshots[i].as_of_date < src_portfolio_snapshots[j].as_of_date

\* The positions of the client's snapshot with the greatest snapshot_id.
PositionsOfGreatestId(c) ==
    IF SnapshotIdsOf(c) = {} THEN EmptyBag ELSE PositionsOf(Max(SnapshotIdsOf(c)))

SumOfWeights(P) == SumFn([r \in BagToSet(P) |-> P[r] * r.weight])
SumOfSquaredWeights(P) == SumFn([r \in BagToSet(P) |-> P[r] * (r.weight * r.weight)])

\* C1: portfolio_risk(client_id) is computed from the positions of the client's
\* snapshot with the maximum as-of date, whatever the order of the snapshot ids.
C1_RiskOfLatestByDate ==
    Asked("portfolio_risk") =>
        last.rec = IF PositionsOfLatestByDate(last.client) = EmptyBag THEN EmptyRecord
                   ELSE PortfolioRiskRow(PositionsOfLatestByDate(last.client))

\* C2 as stated: when the latest snapshot (by as-of date) has a position,
\* hhi_concentration is the sum of the squared weights of its positions and
\* effective_num_positions is 1/HHI (0 when HHI = 0), exactly.  Stated for the
\* clients whose snapshot ids follow the as-of dates.
C2_ExactHhi ==
    (Asked("portfolio_risk") /\ IdsFollowDates(last.client)
        /\ PositionsOfLatestByDate(last.client) # EmptyBag) =>
        LET hhi == SumOfSquaredWeights(PositionsOfLatestByDate(last.client))
        IN  /\ last.rec # EmptyRecord
            /\ last.rec.hhi_concentration * 900 = hhi
            /\ last.rec.effective_num_positions * hhi =
                  IF hhi > 0 THEN 10 * Millionths(1000000) ELSE 0

\* C2 amended: when the snapshot the view reads (the client's greatest snapshot_id)
\* has a position, hhi_concentration is the sum of the squared weights of exactly
\* that snapshot's positions rounded to 4 decimals, and effective_num_positions is
\* 1/HHI rounded to 1 decimal when HHI > 0 and 0 when HHI = 0.
C2_RoundedHhi ==
    \A c \in Clients :
        LET P == PositionsOfGreatestId(c)
            hhi == SumOfSquaredWeights(P)
        IN  (Asked("portfolio_risk") /\ last.client = c /\ P # EmptyBag) =>
                /\ last.rec # EmptyRecord
                /\ 2 * Abs(last.rec.hhi_concentration * 900 - hhi) <= 900
                /\ hhi > 0 =>
                      2 * Abs(last.rec.effective_num_positions * hhi
                                - 10 * Millionths(1000000)) <= hhi
                /\ hhi = 0 => last.rec.effective_num_positions = 0

\* C2 witness: a looked-up snapshot whose HHI 0.015625 is returned as 0.0156.
C2_Witness ==
    /\ Asked("portfolio_risk")
    /\ last.rec # EmptyRecord
    /\ SumOfSquaredWeights(pos_data(last.client)) = Millionths(15625)
    /\ last.rec.hhi_concentration = 156
    /\ last.rec.effective_num_positions = 640

C4_NoRowWithoutPositions ==
    (Asked("portfolio_risk") /\ PositionsOfLatestByDate(last.client) = EmptyBag) =>
        last.rec = EmptyRecord

\* The client has no position in any snapshot.
NoPositions(c) == \A r \in BagToSet(src_positions) : r.snapshot_id \notin SnapshotIdsOf(c)

\* C5: for a client with no positions in any snapshot, position_factor of the
\* composite-risk record and portfolio_volatility / enhanced_risk_level of the
\* risk-assessment record are null or absent, not numbers or labels.
C5_NothingSynthesized ==
    /\ (Asked("composite_risk") /\ NoPositions(last.client)) =>
          ("position_factor" \in DOMAIN last.rec => last.rec.position_factor \notin Nat)
    /\ (Asked("enhanced_risk") /\ NoPositions(last.client)) =>
          /\ "portfolio_volatility" \in DOMAIN last.rec =>
                last.rec.portfolio_volatility \notin Nat
          /\ "enhanced_risk_level" \in DOMAIN last.rec =>
                last.rec.enhanced_risk_level = NULL

\* C6 as stated: a client with calls_prior_30d = 0 and trades_prior_30d = 0 is never
\* classified 'Accelerating' (the comparison against a zero prior count is skipped).
C6_ZeroPriorNeverAccelerating ==
    (Asked("engagement_momentum")
        /\ last.rec.calls_prior_30d = 0 /\ last.rec.trades_prior_30d = 0) =>
        last.rec.engagement_trend # "Accelerating"

\* C6 amended: a zero prior-period count is compared like any other (against
\* 0 x 1.5 = 0): a client with calls_prior_30d = 0 and trades_prior_30d = 0 is
\* classified 'Accelerating' exactly when its last-30-day call count or trade
\* count is positive, and 'Dormant' when both are zero.
C6_ZeroPriorAcceleratingIffActive ==
    (Asked("engagement_momentum")
        /\ last.rec.calls_prior_30d = 0 /\ last.rec.trades_prior_30d = 0) =>
        last.rec.engagement_trend =
            IF last.rec.calls_last_30d > 0 \/ last.rec.trades_last_30d > 0
            THEN "Accelerating" ELSE "Dormant"

\* C6 witness: no call or trade 31 to 60 days ago, a call in the last 30 days.
C6_Witness ==
    /\ Asked("engagement_momentum")
    /\ last.rec.calls_prior_30d = 0 /\ last.rec.trades_prior_30d = 0
    /\ last.rec.calls_last_30d > 0
    /\ last.rec.engagement_trend = "Accelerating"

\* C7: a client whose last-30-day call count and trade count are both zero has
\* engagement_trend = 'Dormant', for every value of the prior-period counts.
C7_DormantWhenNoRecentActivity ==
    (Asked("engagement_momentum")
        /\ last.rec.calls_last_30d = 0 /\ last.rec.trades_last_30d = 0) =>
        last.rec.engagement_trend = "Dormant"

FourMetrics == {"portfolio_risk", "engagement_momentum", "conviction", "composite_risk"}

\* A lookup step that repeats the previous lookup (same metric, same client)
\* against the same tables.
Repeats == last.metric \in FourMetrics /\ last'.metric = last.metric /\ last'.client = last.client

\* All trades of the client are in one ticker: no tie for the top conviction stock.
OneTicker(c) ==
    Cardinality({r.ticker : r \in {x \in BagToSet(src_trade_executions) : x.client_id = c}}) <= 1

SharesEightyTwenty(c) ==
    /\ Cardinality(traded_tickers(c)) = 2
    /\ {trade_focus(c, tk).notional_focus_share : tk \in traded_tickers(c)} = {<<4, 5>>, <<1, 5>>}

EightyShareTicker(c) ==
    CHOOSE tk \in traded_tickers(c) : trade_focus(c, tk).notional_focus_share = <<4, 5>>
TwentyShareTicker(c) ==
    CHOOSE tk \in traded_tickers(c) : trade_focus(c, tk).notional_focus_share = <<1, 5>>

\* C9 as stated: with two traded tickers of notional shares 0.8 and 0.2, trade_hhi
\* is 0.68, conviction_level is 'Very High' and top_conviction_stock is the
\* 0.8-share ticker, wherever the trades lie in the trailing 180 days.
C9_TopIsEightyShare ==
    (Asked("conviction") /\ SharesEightyTwenty(last.client)) =>
        /\ last.rec # EmptyRecord
        /\ last.rec.trade_hhi = <<6800, 10000>>
        /\ last.rec.conviction_level = "Very High"
        /\ last.rec.top_conviction_stock = EightyShareTicker(last.client)

\* C9 amended: with two traded tickers of notional shares 0.8 and 0.2, trade_hhi
\* is 0.68 and conviction_level is 'Very High'; top_conviction_stock is the ticker
\* with the larger time-decayed notional: the 0.8-share ticker when its decayed
\* notional is the larger one, the 0.2-share ticker when that one's is.
C9_TopIsLargerDecayed ==
    (Asked("conviction") /\ SharesEightyTwenty(last.client)) =>
        LET c == last.client
            big == trade_focus(c, EightyShareTicker(c)).decayed_notional
            small == trade_focus(c, TwentyShareTicker(c)).decayed_notional
        IN  /\ last.rec # EmptyRecord
            /\ last.rec.trade_hhi = <<6800, 10000>>
            /\ last.rec.conviction_level = "Very High"
            /\ FLess(small, big) => last.rec.top_conviction_stock = EightyShareTicker(c)
            /\ FLess(big, small) => last.rec.top_conviction_stock = TwentyShareTicker(c)

\* C9 witness: the 0.2-share ticker, traded today, is the top conviction stock
\* because the 0.8-share ticker was traded 170 days ago.
C9_Witness ==
    /\ Asked("conviction")
    /\ SharesEightyTwenty(last.client)
    /\ last.rec.top_conviction_stock = TwentyShareTicker(last.client)
    /\ last.rec.trade_hhi = <<6800, 10000>>

\* C10: position_factor is determined by the maximum single-position weight in the
\* client's latest snapshot only (> 0.15 -> 0.70, > 0.08 -> 0.50, else 0.35);
\* positions of older snapshots never change it.  Stated for clients whose
\* snapshot ids follow the as-of dates and whose latest snapshot has a position.
C10_PositionFactorOfLatestSnapshot ==
    (Asked("composite_risk") /\ IdsFollowDates(last.client)
        /\ PositionsOfLatestByDate(last.client) # EmptyBag) =>
        LET w == Max({r.weight : r \in BagToSet(PositionsOfLatestByDate(last.client))})
        IN  last.rec.position_factor =
                IF w > Thousandths(150) THEN 70 ELSE IF w > Thousandths(80) THEN 50 ELSE 35

\* The number of trades of client c in the trailing 180 days.
TradesIn180Days(c) ==
    SumFn([r \in {x \in BagToSet(src_trade_executions) :
                      x.client_id = c /\ now - x.trade_timestamp <= Days(180)}
             |-> src_trade_executions[r]])

\* C11: trading_factor of composite_risk is a function of the client's trade count
\* in the trailing 180 days only: > 50 -> 0.75, > 20 -> 0.55, > 5 -> 0.40, and 0.25
\* for every count from 0 to 5, a client with no trades included.
C11_TradingFactorOfTradeCount ==
    Asked("composite_risk") =>
        LET n == TradesIn180Days(last.client)
        IN  last.rec.trading_factor =
                IF n > 50 THEN 75 ELSE IF n > 20 THEN 55 ELSE IF n > 5 THEN 40 ELSE 25

\* The fixed lookup of investor_type_factor by client type.
InvestorTypeFactor(client_type) ==
    CASE client_type = "Hedge Fund" -> 85
      [] client_type = "Family Office" -> 65
      [] client_type = "Asset Manager" -> 55
      [] client_type = "Insurance" -> 35
      [] client_type = "Pension Fund" -> 30
      [] OTHER -> 50

\* The client is a Hedge Fund with 60 trades in 180 days and max position weight 0.20.
HedgeFundSixtyTrades(c) ==
    /\ src_clients[c] = "Hedge Fund"
    /\ TradesIn180Days(c) = 60
    /\ position_size(c) # NoRow
    /\ position_size(c).max_weight = Thousandths(200)

\* C12 as stated: composite_risk_score is exactly 0.40 investor_type_factor +
\* 0.35 trading_factor + 0.25 position_factor with investor_type_factor from the
\* fixed lookup, risk_category follows the score, and the Hedge Fund with 60
\* trades and max position weight 0.20 scores 0.7775 and is 'Aggressive'.
C12_ExactCompositeScore ==
    Asked("composite_risk") =>
        LET r == last.rec
            sum == 40 * r.investor_type_factor + 35 * r.trading_factor + 25 * r.position_factor
        IN  /\ r.investor_type_factor = InvestorTypeFactor(src_clients[last.client])
            /\ r.composite_risk_score * 10 = sum
            /\ r.risk_category = IF sum >= 6000 THEN "Aggressive"
                                 ELSE IF sum >= 4200 THEN "Moderate" ELSE "Conservative"
            /\ HedgeFundSixtyTrades(last.client) =>
                  (r.composite_risk_score * 10 = 7775 /\ r.risk_category = "Aggressive")

\* C12 amended: composite_risk_score is 0.40 investor_type_factor + 0.35
\* trading_factor + 0.25 position_factor rounded to 3 decimals, with
\* investor_type_factor from the fixed lookup; risk_category is 'Aggressive' iff
\* the sum is >= 0.60, 'Moderate' iff it is >= 0.42 and < 0.60, else 'Conservative';
\* the Hedge Fund with 60 trades and max position weight 0.20 is returned the score
\* 0.778 and is 'Aggressive'.
C12_RoundedCompositeScore ==
    Asked("composite_risk") =>
        LET r == last.rec
            sum == 40 * r.investor_type_factor + 35 * r.trading_factor + 25 * r.position_factor
        IN  /\ r.investor_type_factor = InvestorTypeFactor(src_clients[last.client])
            /\ 2 * Abs(r.composite_risk_score * 10 - sum) <= 10
            /\ r.risk_category = IF sum >= 6000 THEN "Aggressive"
                                 ELSE IF sum >= 4200 THEN "Moderate" ELSE "Conservative"
            /\ r.risk_category = IF r.composite_risk_score >= 600 THEN "Aggressive"
                                 ELSE IF r.composite_risk_score >= 420 THEN "Moderate"
                                 ELSE "Conservative"
            /\ HedgeFundSixtyTrades(last.client) =>
                  (r.composite_risk_score = 778 /\ r.risk_category = "Aggressive")

\* C12 witness: the Hedge Fund with 60 trades and max position weight 0.20 is
\* looked up and scores 0.778.
C12_Witness ==
    /\ Asked("composite_risk")
    /\ HedgeFundSixtyTrades(last.client)
    /\ last.rec.composite_risk_score = 778

\* The calls and the trades of client c aged at most 90 days.
CallsIn90Days(c) ==
    {r \in BagToSet(src_call_logs) : r.client_id = c /\ now - r.call_timestamp <= Days(90)}
TradesIn90Days(c) ==
    {r \in BagToSet(src_trade_executions) :
        r.client_id = c /\ now - r.trade_timestamp <= Days(90)}

\* 1 / (1 + d / 14) of an event d days old (age in half days).
Decay14(age) == Frac(Days(14), Days(14) + age)

\* The decayed sums of the client's events of the trailing 90 days.
DecayedCallCount(c) ==
    FSumFn([r \in CallsIn90Days(c) |->
        FMul(<<src_call_logs[r], 1>>, Decay14(now - r.call_timestamp))])
DecayedCallMinutes(c) ==
    FSumFn([r \in CallsIn90Days(c) |->
        FMul(<<src_call_logs[r] * r.duration_minutes, 1>>, Decay14(now - r.call_timestamp))])
DecayedTradeVolume(c) ==
    FSumFn([r \in TradesIn90Days(c) |->
        FMul(FMul(<<src_trade_executions[r], 1>>, Decay14(now - r.trade_timestamp)),
             IF r.notional_bucket = "Large" THEN <<3, 1>>
             ELSE IF r.notional_bucket = "Medium" THEN <<3, 2>> ELSE <<1, 1>>)])
DecayedSideWeight(c, side) ==
    FSumFn([r \in {x \in TradesIn90Days(c) : x.side = side} |->
        FMul(<<src_trade_executions[r], 1>>, Decay14(now - r.trade_timestamp))])

EngagementFields ==
    {"calls_last_30d", "calls_prior_30d", "call_momentum", "trades_last_30d",
     "trades_prior_30d", "trade_momentum", "recent_buy_ratio", "large_trades_30d",
     "engagement_score_decayed", "engagement_score_30d", "engagement_trend",
     "trade_probability"}

\* C13: call_momentum is null whenever calls_prior_30d = 0, trade_momentum is null
\* whenever trades_prior_30d = 0, recent_buy_ratio is null whenever the decayed buy
\* and sell weights are both zero; the null field is not 0 and the remaining fields
\* of the engagement record are still produced.
C13_NullOnZeroDivisor ==
    Asked("engagement_momentum") =>
        LET r == last.rec
            c == last.client
        IN  /\ DOMAIN r = EngagementFields
            /\ r.calls_prior_30d = 0 => r.call_momentum = NullNum
            /\ r.trades_prior_30d = 0 => r.trade_momentum = NullNum
            /\ (DecayedSideWeight(c, "Buy")[1] = 0 /\ DecayedSideWeight(c, "Sell")[1] = 0)
                  => r.recent_buy_ratio = NullNum
            /\ r.calls_last_30d \in Nat /\ r.trades_last_30d \in Nat
            /\ r.large_trades_30d \in Nat
            /\ r.engagement_score_decayed # NullNum /\ r.engagement_score_30d # NullNum
            /\ r.trade_probability # NullNum
            /\ r.engagement_trend \in {"Accelerating", "Cooling Off", "Dormant", "Stable"}

\* C13 witness: calls in the last 30 days and none in the prior period, no trade:
\* call_momentum, trade_momentum and recent_buy_ratio are null.
C13_Witness ==
    /\ Asked("engagement_momentum")
    /\ last.rec.calls_last_30d > 0 /\ last.rec.calls_prior_30d = 0
    /\ last.rec.call_momentum = NullNum
    /\ last.rec.trade_momentum = NullNum
    /\ last.rec.recent_buy_ratio = NullNum

\* 0.05 without decayed trade weight, else min(0.95, 0.1 + 0.3 min(1, trade volume / 10)
\* + 0.3 min(1, call volume / 5) + 0.2 buy ratio).
TradeProbabilityFormula(c) ==
    LET volume == DecayedTradeVolume(c)
        buys == DecayedSideWeight(c, "Buy")
        sells == DecayedSideWeight(c, "Sell")
        both == FAdd(buys, sells)
    IN  IF volume[1] = 0 THEN <<1, 20>>
        ELSE FMin(<<19, 20>>,
                  FAdd(FAdd(<<1, 10>>, FMul(<<3, 10>>, FMin(<<1, 1>>, FMul(volume, <<1, 10>>)))),
                       FAdd(FMul(<<3, 10>>, FMin(<<1, 1>>, FMul(DecayedCallCount(c), <<1, 5>>))),
                            FMul(<<1, 5>>, FMul(buys, <<both[2], both[1]>>)))))

\* A decimal <<count, 10^k>> equals the fraction q.
DecimalIs(dec, q) == dec[1] * q[2] = q[1] * dec[2]
\* A non-null decimal <<count, 10^k>> is the fraction q rounded to k decimals.
DecimalRounds(dec, q) ==
    /\ dec # NullNum
    /\ 2 * Abs(dec[1] * q[2] - q[1] * dec[2]) <= q[2]

EngagementScoreFormula(c) ==
    FAdd(FMul(<<3, 20>>, DecayedCallMinutes(c)), FMul(<<5, 2>>, DecayedTradeVolume(c)))

\* C15 as stated: engagement_score_decayed equals 0.15 x sum(duration_minutes x
\* decay_weight) over the calls plus 2.5 x sum(decay_weight x size_weight) over the
\* trades, over the events aged at most 90 days only.
C15_ExactEngagementScore ==
    Asked("engagement_momentum") =>
        DecimalIs(last.rec.engagement_score_decayed, EngagementScoreFormula(last.client))

\* C15 amended: engagement_score_decayed equals that sum rounded to 1 decimal, over
\* the events aged at most 90 days only: an event older than 90 days does not
\* change it.
C15_RoundedEngagementScore ==
    Asked("engagement_momentum") =>
        /\ DecimalRounds(last.rec.engagement_score_decayed, EngagementScoreFormula(last.client))
        /\ last.rec.engagement_score_decayed[2] = 10

\* C15 witness: a client with an event older than 90 days and a younger one, whose
\* score is not a whole number of tenths.
C15_Witness ==
    /\ Asked("engagement_momentum")
    /\ \E r \in BagToSet(src_trade_executions) \cup BagToSet(src_call_logs) :
          /\ r.client_id = last.client
          /\ r \notin CallsIn90Days(last.client) \cup TradesIn90Days(last.client)
    /\ ~DecimalIs(last.rec.engagement_score_decayed, EngagementScoreFormula(last.client))

\* The trades of client c in ticker tk aged at most 180 days, and the client's
\* tickers with such a trade.
TickerTrades(c, tk) ==
    {r \in BagToSet(src_trade_executions) :
        r.client_id = c /\ r.ticker = tk /\ now - r.trade_timestamp <= Days(180)}
ClientTickers(c) ==
    {r.ticker : r \in {x \in BagToSet(src_trade_executions) :
        x.client_id = c /\ x.ticker # NULL /\ now - x.trade_timestamp <= Days(180)}}

\* The notional estimated for a trade: Large 500000, Medium 100000, Small 25000.
EstimatedNotional(r) ==
    IF r.notional_bucket = "Large" THEN 500000
    ELSE IF r.notional_bucket = "Medium" THEN 100000 ELSE 25000

\* sum(estimated notional x 1 / (1 + d / 30)) and sum(estimated notional) of a ticker.
TickerDecayedNotional(c, tk) ==
    FSumFn([r \in TickerTrades(c, tk) |->
        FMul(<<src_trade_executions[r] * EstimatedNotional(r), 1>>,
             Frac(Days(30), Days(30) + (now - r.trade_timestamp)))])
TickerNotional(c, tk) ==
    SumFn([r \in TickerTrades(c, tk) |-> src_trade_executions[r] * EstimatedNotional(r)])

\* The top conviction stock of the record has a maximal decayed notional.
TopIsMaximal ==
    /\ last.rec.top_conviction_stock \in ClientTickers(last.client)
    /\ \A tk \in ClientTickers(last.client) :
          ~FLess(TickerDecayedNotional(last.client, last.rec.top_conviction_stock),
                 TickerDecayedNotional(last.client, tk))

\* decayed_notional / 10000 of the top conviction stock of the record.
ConvictionScoreFormula ==
    FMul(TickerDecayedNotional(last.client, last.rec.top_conviction_stock), <<1, 10000>>)

\* C16 as stated: top_conviction_stock is a ticker whose decayed_notional is maximal
\* among the client's traded tickers, and conviction_score equals that ticker's
\* decayed_notional / 10000.
C16_ExactConvictionScore ==
    (Asked("conviction") /\ last.rec # EmptyRecord) =>
        /\ TopIsMaximal
        /\ DecimalIs(last.rec.conviction_score, ConvictionScoreFormula)

\* C16 amended: top_conviction_stock is a ticker whose decayed_notional is maximal
\* among the client's traded tickers, and conviction_score equals that ticker's
\* decayed_notional / 10000 rounded to 1 decimal.
C16_RoundedConvictionScore ==
    (Asked("conviction") /\ last.rec # EmptyRecord) =>
        /\ TopIsMaximal
        /\ DecimalRounds(last.rec.conviction_score, ConvictionScoreFormula)
        /\ last.rec.conviction_score[2] = 10

\* C16 witness: two traded tickers of different decayed notional, and the score of
\* the top one is not a multiple of 0.1 before rounding (two Small trades 170 days
\* old: decayed notional 7500, 0.75 returned as 0.8).
C16_Witness ==
    /\ Asked("conviction")
    /\ Cardinality(ClientTickers(last.client)) = 2
    /\ \E tk \in ClientTickers(last.client) :
          FLess(TickerDecayedNotional(last.client, tk),
                TickerDecayedNotional(last.client, last.rec.top_conviction_stock))
    /\ ~DecimalIs(last.rec.conviction_score, ConvictionScoreFormula)

\* sum over the client's tickers of (ticker total_notional / client total_notional)^2
TradeHhiFormula(c) ==
    LET total == SumFn([tk \in ClientTickers(c) |-> TickerNotional(c, tk)])
    IN  FSumFn([tk \in ClientTickers(c) |->
            FMul(Frac(TickerNotional(c, tk), total), Frac(TickerNotional(c, tk), total))])

\* 'Very High' iff hhi >= 0.25, 'High' iff >= 0.15, 'Moderate' iff >= 0.08, else 'Diversified'
ConvictionLevelOf(hhi) ==
    IF ~FLess(hhi, <<25, 100>>) THEN "Very High"
    ELSE IF ~FLess(hhi, <<15, 100>>) THEN "High"
    ELSE IF ~FLess(hhi, <<8, 100>>) THEN "Moderate"
    ELSE "Diversified"

\* C17 as stated: trade_hhi equals the sum over the client's tickers traded in the
\* trailing 180 days of (ticker total_notional / client total_notional)^2, and
\* conviction_level follows trade_hhi: 'Very High' iff >= 0.25, 'High' iff >= 0.15,
\* 'Moderate' iff >= 0.08, else 'Diversified'.
C17_ExactTradeHhi ==
    (Asked("conviction") /\ last.rec # EmptyRecord) =>
        /\ DecimalIs(last.rec.trade_hhi, TradeHhiFormula(last.client))
        /\ last.rec.conviction_level = ConvictionLevelOf(last.rec.trade_hhi)

\* C17 amended: trade_hhi equals that sum rounded to 4 decimals, and
\* conviction_level follows the sum before rounding: 'Very High' iff >= 0.25,
\* 'High' iff >= 0.15, 'Moderate' iff >= 0.08, else 'Diversified'.
C17_RoundedTradeHhi ==
    (Asked("conviction") /\ last.rec # EmptyRecord) =>
        /\ DecimalRounds(last.rec.trade_hhi, TradeHhiFormula(last.client))
        /\ last.rec.trade_hhi[2] = 10000
        /\ last.rec.conviction_level = ConvictionLevelOf(TradeHhiFormula(last.client))

\* C17 witness: seven equally traded tickers, trade_hhi 1/7 returned as 0.1429,
\* conviction_level 'Moderate'.
C17_Witness ==
    /\ Asked("conviction")
    /\ TradeHhiFormula(last.client) = <<1, 7>>
    /\ last.rec.trade_hhi = <<1429, 10000>>
    /\ last.rec.conviction_level = "Moderate"

\* The number of trades of side `side` in the top conviction stock of the record.
TopTickerTrades(side) ==
    SumFn([r \in {x \in TickerTrades(last.client, last.rec.top_conviction_stock) :
                      x.side = side} |-> src_trade_executions[r]])

\* C18: net_direction equals the number of Buy trades minus the number of Sell
\* trades of the client in the top ticker within the trailing 180 days, and
\* sentiment_signal is 'Bullish' iff net_direction > 0, 'Bearish' iff it is < 0,
\* 'Neutral' iff it is 0.
C18_NetDirectionOfTopTicker ==
    (Asked("conviction") /\ last.rec # EmptyRecord) =>
        /\ last.rec.net_direction = TopTickerTrades("Buy") - TopTickerTrades("Sell")
        /\ last.rec.sentiment_signal =
              IF last.rec.net_direction > 0 THEN "Bullish"
              ELSE IF last.rec.net_direction < 0 THEN "Bearish" ELSE "Neutral"

\* C18 witness: the top ticker has two Sell trades and the record is 'Bearish',
\* while the client bought another ticker.
C18_Witness ==
    /\ Asked("conviction")
    /\ last.rec # EmptyRecord
    /\ TopTickerTrades("Sell") = 2
    /\ last.rec.net_direction = -2
    /\ last.rec.sentiment_signal = "Bearish"
    /\ \E r \in BagToSet(src_trade_executions) :
          r.client_id = last.client /\ r.side = "Buy"
              /\ r.ticker \in ClientTickers(last.client)

\* 'Very Concentrated' iff h >= 0.25, 'Concentrated' iff 0.15 <= h < 0.25,
\* 'Moderate' iff 0.10 <= h < 0.15, else 'Diversified', for h = n / d.
HhiRiskLevelOf(n, d) ==
    IF 100 * n >= 25 * d THEN "Very Concentrated"
    ELSE IF 100 * n >= 15 * d THEN "Concentrated"
    ELSE IF 100 * n >= 10 * d THEN "Moderate"
    ELSE "Diversified"

\* C19 as stated: in every record returned by portfolio_risk, hhi_risk_level agrees
\* with the returned hhi_concentration under inclusive lower bounds 0.25, 0.15, 0.10.
C19_LevelOfReturnedHhi ==
    (Asked("portfolio_risk") /\ last.rec # EmptyRecord) =>
        last.rec.hhi_risk_level = HhiRiskLevelOf(last.rec.hhi_concentration, 10000)

\* C19 amended: in every record returned by portfolio_risk, hhi_risk_level agrees
\* with the HHI of the snapshot read before it is rounded to 4 decimals, under
\* inclusive lower bounds: 'Very Concentrated' iff HHI >= 0.25, 'Concentrated' iff
\* 0.15 <= HHI < 0.25, 'Moderate' iff 0.10 <= HHI < 0.15, 'Diversified' otherwise.
C19_LevelOfUnroundedHhi ==
    (Asked("portfolio_risk") /\ last.rec # EmptyRecord) =>
        last.rec.hhi_risk_level =
            HhiRiskLevelOf(SumOfSquaredWeights(PositionsOfGreatestId(last.client)),
                           Millionths(1000000))

\* C19 witness: weights 0.499 and 0.031 have HHI 0.249962, returned as 0.2500 with
\* hhi_risk_level 'Concentrated'.
C19_Witness ==
    /\ Asked("portfolio_risk")
    /\ last.rec # EmptyRecord
    /\ SumOfSquaredWeights(PositionsOfGreatestId(last.client)) = Millionths(249962)
    /\ last.rec.hhi_concentration = 2500
    /\ last.rec.hhi_risk_level = "Concentrated"

\* The bag P holds n >= 1 positions, each of weight 1/n.
EqualWeighted(P, n) ==
    /\ n >= 1
    /\ BagCardinality(P) = n
    /\ \A r \in BagToSet(P) : r.weight * n = Thousandths(1000)

\* C20 as stated: for a snapshot of N >= 1 positions that all have weight 1/N,
\* portfolio_risk yields HHI = 1/N and effective_num_positions = N.
C20_EqualWeightsExact ==
    \A n \in EqualCounts :
        (Asked("portfolio_risk") /\ EqualWeighted(PositionsOfGreatestId(last.client), n)) =>
            /\ last.rec # EmptyRecord
            /\ last.rec.hhi_concentration * n = 10000
            /\ last.rec.effective_num_positions = 10 * n

\* C20 amended: for a snapshot of N >= 1 positions that all have weight 1/N,
\* portfolio_risk yields hhi_concentration = 1/N rounded to 4 decimals and
\* effective_num_positions = N.
C20_EqualWeightsRounded ==
    \A n \in EqualCounts :
        (Asked("portfolio_risk") /\ EqualWeighted(PositionsOfGreatestId(last.client), n)) =>
            /\ last.rec # EmptyRecord
            /\ 2 * Abs(last.rec.hhi_concentration * n - 10000) <= n
            /\ last.rec.effective_num_positions = 10 * n

\* C20 witness: three positions of weight 1/3 are returned the HHI 0.3333 and
\* 3.0 effective positions.
C20_Witness ==
    /\ Asked("portfolio_risk")
    /\ EqualWeighted(PositionsOfGreatestId(last.client), 3)
    /\ last.rec.hhi_concentration = 3333
    /\ last.rec.effective_num_positions = 30

\* The timestamps of the events of client c that the engagement view and the
\* conviction view decay.
EngagementEventTimes(c) ==
    {r.call_timestamp : r \in BagToSet(call_events(c))}
        \cup {r.trade_timestamp : r \in BagToSet(trade_events(c))}
ConvictionEventTimes(c) == {r.trade_timestamp : r \in BagToSet(trade_values(c))}

\* Over the events at `times`, the weight w is 1 at age 0, 1/2 at age `half`, and
\* strictly smaller for the older of two events of age >= 0.
HalfLifeDecay(w(_), times, half) ==
    /\ \A t \in times : days_ago(t) = 0 => w(t) = <<1, 1>>
    /\ \A t \in times : days_ago(t) = half => w(t) = <<1, 2>>
    /\ \A t, u \in times :
          (0 <= days_ago(t) /\ days_ago(t) < days_ago(u)) => FLess(w(u), w(t))

\* C21: the decay weight of the views is 1 at age 0 for both half-life constants,
\* strictly decreasing in the event age d for d >= 0, and 0.5 at d = 14 for the
\* engagement constant and at d = 30 for the conviction constant.
C21_HalfLifeDecay ==
    /\ Asked("engagement_momentum") =>
          HalfLifeDecay(decay_weight_14, EngagementEventTimes(last.client), Days(14))
    /\ Asked("conviction") =>
          HalfLifeDecay(decay_weight_30, ConvictionEventTimes(last.client), Days(30))

\* C21 witness: the engagement of a client with an event of age 0 and an event of
\* age 14 days is looked up.
C21_Witness ==
    /\ Asked("engagement_momentum")
    /\ {days_ago(t) : t \in EngagementEventTimes(last.client)} = {0, Days(14)}

\* C24: every event that contributes to a decayed sum (calls and trades in
\* engagement_momentum, trades in conviction) contributes with a decay weight in
\* (0,1], for every timestamp that passes the window filter, timestamps later than
\* the evaluation time included.
C24_DecayWeightInUnitInterval ==
    /\ Asked("engagement_momentum") =>
          \A t \in EngagementEventTimes(last.client) :
              FLess(FZero, decay_weight_14(t)) /\ ~FLess(<<1, 1>>, decay_weight_14(t))
    /\ Asked("conviction") =>
          \A t \in ConvictionEventTimes(last.client) :
              FLess(FZero, decay_weight_30(t)) /\ ~FLess(<<1, 1>>, decay_weight_30(t))

\* The number of rows of bag B whose timestamp ts[row] has an age from 0 to 60 days.
AgedUpTo60Days(B, ts(_)) ==
    SumFn([r \in {x \in BagToSet(B) : 0 <= now - ts(x) /\ now - ts(x) <= Days(60)} |-> B[r]])
CallTime(r) == r.call_timestamp
TradeTime(r) == r.trade_timestamp
ClientCalls(c) == BagFilter(src_call_logs, [r \in BagToSet(src_call_logs) |-> r.client_id = c])
ClientTrades(c) ==
    BagFilter(src_trade_executions, [r \in BagToSet(src_trade_executions) |-> r.client_id = c])

\* C25: every call (and every trade) whose age is between 0 and 60 days, in
\* fractional days, is counted in exactly one of calls_last_30d and calls_prior_30d
\* (trades_last_30d and trades_prior_30d).  Stated for clients without events
\* dated after the evaluation time.
C25_EachEventInOneWindow ==
    (/\ Asked("engagement_momentum")
     /\ \A t \in EngagementEventTimes(last.client) : days_ago(t) >= 0) =>
        /\ last.rec.calls_last_30d + last.rec.calls_prior_30d
              = AgedUpTo60Days(ClientCalls(last.client), CallTime)
        /\ last.rec.trades_last_30d + last.rec.trades_prior_30d
              = AgedUpTo60Days(ClientTrades(last.client), TradeTime)

\* C27: the investor type bounds the composite risk category for every trade
\* history and every set of positions: a Pension Fund or Insurance client is never
\* 'Aggressive' and a Hedge Fund client is never 'Conservative'.
C27_TypeBoundsCategory ==
    Asked("composite_risk") =>
        /\ src_clients[last.client] \in {"Pension Fund", "Insurance"} =>
              last.rec.risk_category # "Aggressive"
        /\ src_clients[last.client] = "Hedge Fund" =>
              last.rec.risk_category # "Conservative"

\* C27 witness: a Pension Fund client with more than 50 trades and a position above
\* 0.15, the highest trading and position factors, is 'Moderate'.
C27_Witness ==
    /\ Asked("composite_risk")
    /\ src_clients[last.client] = "Pension Fund"
    /\ last.rec.trading_factor = 75
    /\ last.rec.position_factor = 70
    /\ last.rec.risk_category = "Moderate"

LookupAlone(metric, c) ==
    CASE metric = "portfolio_risk" -> {get_portfolio_risk(c)}
      [] metric = "engagement_momentum" -> {get_engagement_momentum(c)}
      [] metric = "conviction" -> {get_conviction(row) : row \in ana_client_conviction(c)}

C23_TenItemsAndTwoTopPicks ==
    (last.metric = "/api/shortlist" /\ "error" \notin DOMAIN last.rec) =>
        /\ Len(last.rec.shortlist) = 10
        /\ Len(last.rec.top_picks) = 2

\* The endpoints that log to the audit trail.
GenerationEndpoints == {"/api/shortlist", "/api/story_for_stock", "/api/shortlist.pdf"}

\* C28: a request to /api/shortlist, /api/story_for_stock or /api/shortlist.pdf
\* appends exactly one row to ai_generation_history when it returns a result,
\* and no row when it returns an error response.
C28_OneRowPerSuccessfulRequest ==
    [][last'.metric \in GenerationEndpoints =>
          IF "error" \in DOMAIN last'.rec
          THEN ai_generation_history' = ai_generation_history
          ELSE /\ Len(ai_generation_history') = Len(ai_generation_history) + 1
               /\ SubSeq(ai_generation_history', 1, Len(ai_generation_history))
                     = ai_generation_history]_vars

\* The rows logged for client c, and the n of them logged last.
LoggedFor(c) ==
    {ai_generation_history[i] : i \in {j \in DOMAIN ai_generation_history :
                                           ai_generation_history[j].client_id = c}}
MostRecent(rows, n) ==
    {r \in rows : Cardinality({q \in rows : q.generation_id > r.generation_id}) < n}

\* C29: get_generation_history(client_id, limit) returns only rows logged for
\* the client, at most limit of them, a row logged later never after a row
\* logged earlier, and the most recently logged ones when more than limit exist.
C29_HistoryNewestFirst ==
    last.metric = "/api/history" =>
        LET history == last.rec.history
            returned == {history[i] : i \in DOMAIN history}
        IN  /\ returned \subseteq LoggedFor(last.client)
            /\ Len(history) <= last.limit
            /\ \A i, j \in DOMAIN history :
                  i < j => history[i].generation_id > history[j].generation_id
            /\ Cardinality(LoggedFor(last.client)) > last.limit =>
                  returned = MostRecent(LoggedFor(last.client), last.limit)


\* C30: a list returned by build_candidate_universe(client_id, max_candidates)
\* has no stock whose ticker is in the avoid set of the client, has each
\* stock_id at most once, and has at most max_candidates entries.
C30_CandidatesAvoidUniqueBounded ==
    last.metric = "candidate_universe" =>
        /\ \A i \in DOMAIN last.rec : last.rec[i].ticker \notin last.avoid
        /\ \A i, j \in DOMAIN last.rec :
              i # j => last.rec[i].stock_id # last.rec[j].stock_id
        /\ Len(last.rec) <= last.max_candidates

====
